---- MODULE Spec2Model ----
(***************************************************************************)
(* Historical token price oracle: the tiered price resolution              *)
(* (OracleService.getTokenPriceAtTimestamp), the interpolation engine      *)
(* (InterpolationService), the TokenPrice store with its unique index, the *)
(* Redis result cache helpers and the batch collection job processor       *)
(* (QueueService.processPriceCollectionJob / processBatch).                *)
(*                                                                         *)
(* Units.  Timestamps are unix seconds counted from a local epoch so that  *)
(* millisecond dates stay in range.  Prices are integers in units of 1e-9, *)
(* one digit finer than the 8 decimals toFixed(8) rounds to: a price is a  *)
(* JavaScript number and need not be a multiple of 1e-8.  Confidences are  *)
(* integers in units of 1e-5, in which every product of the scoring        *)
(* factors is exact.                                                       *)
(***************************************************************************)
EXTENDS Integers, Sequences, FiniteSets, Bags, TLC

----------------------------------------------------------------------------
(* Bounds of the model. *)

\* number of daily timestamps in the collection job
JobLen == 3
\* configured BATCH_SIZE (the default is 10)
BatchSize == 2
\* calls in a sequential run compared with and without the cache
MaxSeqCalls == 3
\* calls of cancelJob
MaxCancels == 2
\* calls of bulkUpsert, and points in one call
MaxUpserts == 2
MaxPoints == 2
\* schedule calls (scheduleHistoricalDataCollection), and whole days from the creation to now
MaxSched == 2
MaxDays == 1
\* configured ALCHEMY_RATE_LIMIT, the limiter's max per minute (the default is 100)
RateLimit == 2
\* calls of interpolatePrice on one store
MaxIpCalls == 2
\* configured PRICE_CACHE_TTL values 1..MaxTTL, seconds, and calls served under one
MaxTTL == 3
\* times one job is handed to the worker
MaxRuns == 2
\* calls of getCachedData, and clock ticks of half the default expiry
MaxMemCalls == 3
MaxMemTicks == 3
MaxTTLCalls == 2

----------------------------------------------------------------------------
(* Program constants. *)

\* confidence 1 (schema default and maximum), in units of 1e-5
ConfOne == 100000
\* base confidence of an interpolated price, 0.8
ConfBase == 80000
\* lowest confidence after clamping, 0.1
ConfMin == 10000
\* PRICE_CACHE_TTL default, seconds
CacheTTL == 300
\* maxGap: 7 days in seconds
MaxGap == 604800
\* pRetry retries (RETRY_ATTEMPTS default)
Retries == 3
\* seconds per hour, per day
Hour == 3600
Day == 86400

\* price units in 1e-8, the last decimal toFixed(8) keeps
Grain == 10

\* fallback creation timestamps: Ethereum (Jul 30, 2015) and Polygon (May 30, 2020)
EthereumLaunch == 1438269960
PolygonLaunch == 1590824707

\* the TTL Redis reports for a key stored without expiry
NoExpiry == -1
\* PriceService.cacheExpiry, milliseconds
MemCacheExpiry == 30000

\* IEEE NaN, the value of 0/0; no price is negative (schema min: 0)
NaN == -1

None == [none |-> TRUE]

Resolvers == {"r1", "r2"}
Tokens == {"0xab"}
Networks == {"ethereum"}

\* the id of the job in the queue, and an id no job has
QueuedId == "1"
UnknownId == "2"
JobIds == {QueuedId, UnknownId}

\* first day of the series, and the timestamps requests ask for
T0 == Day
ReqTS == {T0 + 12 * Hour, T0 + Day}
\* prices the external source may return, and what a fetch resolves to
Prices == {10, 20}
PriceData == { [ price |-> p ] : p \in Prices }

\* String.prototype.toLowerCase on the identifiers in use
ToLowerCase(s) ==
  CASE s = "0xAB" -> "0xab"
    [] s = "Ethereum" -> "ethereum"
    [] OTHER -> s

\* new Date(timestamp * 1000), as milliseconds
DateOf(ts) == ts * 1000

\* redisConnection.generatePriceKey
GeneratePriceKey(token, network, timestamp) == <<"price", token, network, timestamp>>

Abs(x) == IF x < 0 THEN -x ELSE x
Max(a, b) == IF a > b THEN a ELSE b
Min(a, b) == IF a < b THEN a ELSE b

----------------------------------------------------------------------------
(* The TokenPrice collection. *)

\* variant: every new document is labelled as an estimate
NewTokenPriceEstimated(token, network, timestamp, price, source, confidence, metadata) ==
  [ token |-> ToLowerCase(token), network |-> ToLowerCase(network),
    date |-> DateOf(timestamp), timestamp |-> timestamp, price |-> price,
    source |-> "interpolated", confidence |-> confidence, metadata |-> metadata ]

\* a new TokenPrice document before save()
NewTokenPrice(token, network, timestamp, price, source, confidence, metadata) ==
  [ token |-> ToLowerCase(token), network |-> ToLowerCase(network),
    date |-> DateOf(timestamp), timestamp |-> timestamp, price |-> price,
    source |-> source, confidence |-> confidence, metadata |-> metadata ]

\* schema validation run by save(): price is a number >= 0
ValidationFails(doc) == doc.price = NaN \/ doc.price < 0

\* variant: the compound index is not declared unique
NonUniqueIndex(coll, doc) == FALSE

\* the unique index { token, network, date } rejects a second document
UniqueIndexViolated(coll, doc) ==
  \E d \in BagToSet(coll) : d.token = doc.token /\ d.network = doc.network /\ d.date = doc.date

\* variant: save() checks the schema only, not the index
CanSaveUnchecked(coll, doc) == ~ValidationFails(doc)

\* document.save(): insert unless validation or the unique index rejects it
CanSave(coll, doc) == ~ValidationFails(doc) /\ ~UniqueIndexViolated(coll, doc)

\* variant: save() resolves without writing the document
InsertDropped(coll, doc) == coll

\* the collection after a successful insert (a bag: documents differ by _id only)
Insert(coll, doc) == coll (+) SetToBag({doc})

\* variant: the lookup never finds a document
MatchingNothing(coll, token, network, timestamp) == {}

\* TokenPrice.findOne({ token, network, timestamp })
Matching(coll, token, network, timestamp) ==
  { d \in BagToSet(coll) : d.token = ToLowerCase(token) /\ d.network = ToLowerCase(network)
                 /\ d.timestamp = timestamp }

\* findNearestPrices, first query: timestamp <= target, sorted descending
BeforeCandidates(coll, token, network, target) ==
  { d \in BagToSet(coll) : /\ d.token = ToLowerCase(token)
                 /\ d.network = ToLowerCase(network)
                 /\ d.timestamp <= target
                 /\ \A e \in BagToSet(coll) : (e.token = d.token /\ e.network = d.network
                                     /\ e.timestamp <= target)
                                    => e.timestamp <= d.timestamp }

\* findNearestPrices, second query: timestamp >= target, sorted ascending
AfterCandidates(coll, token, network, target) ==
  { d \in BagToSet(coll) : /\ d.token = ToLowerCase(token)
                 /\ d.network = ToLowerCase(network)
                 /\ d.timestamp >= target
                 /\ \A e \in BagToSet(coll) : (e.token = d.token /\ e.network = d.network
                                     /\ e.timestamp >= target)
                                    => e.timestamp >= d.timestamp }

----------------------------------------------------------------------------
(* TokenPrice.bulkUpsert: one updateOne { filter, $set, upsert } per point. *)

\* points handed to bulkUpsert: token in either case, two days, two prices
UpsertPoints ==
  { [ token |-> t, network |-> "ethereum", date |-> DateOf(ts), timestamp |-> ts,
      price |-> p, source |-> "manual", confidence |-> ConfOne ] :
      t \in {"0xab", "0xAB"}, ts \in {T0, T0 + Day}, p \in Prices }

\* the argument of one call: 1 to MaxPoints points
PointSeqs == UNION { [ 1..n -> UpsertPoints ] : n \in 1..MaxPoints }

\* the update after casting by the schema: the lowercase setters run on $set
CastUpdate(data) ==
  [ data EXCEPT !.token = ToLowerCase(@), !.network = ToLowerCase(@) ]

\* $set: the fields of the update replace those of the document, the others stay
SetFields(doc, update) ==
  [ f \in DOMAIN doc |-> IF f \in DOMAIN update THEN update[f] ELSE doc[f] ]

\* the document an upsert inserts: the filter's fields and the schema defaults,
\* then $set; date is absent (0) unless the point carries it
UpsertedDoc(data) ==
  SetFields([ token |-> ToLowerCase(data.token), network |-> ToLowerCase(data.network),
              date |-> 0, timestamp |-> data.timestamp, price |-> 0,
              source |-> "alchemy", confidence |-> ConfOne, metadata |-> None ],
            CastUpdate(data))

\* variant: every point is inserted as a new document
UpsertOneAlwaysInsert(coll, data) == Insert(coll, UpsertedDoc(data))

\* updateOne with upsert: the first document matching { token, network,
\* timestamp } is updated in place, or a new one is inserted
UpsertOne(coll, data) ==
  LET found == Matching(coll, data.token, data.network, data.timestamp)
  IN  IF found = {}
      THEN Insert(coll, UpsertedDoc(data))
      ELSE LET d == CHOOSE d \in found : TRUE
           IN  (coll (-) SetToBag({d})) (+) SetToBag({SetFields(d, CastUpdate(data))})

\* the write is rejected by the unique index (only an insert can be)
UpsertRejected(coll, data) ==
  /\ Matching(coll, data.token, data.network, data.timestamp) = {}
  /\ UniqueIndexViolated(coll, UpsertedDoc(data))

\* bulkWrite(bulkOps), ordered: the operations run in turn and stop at the
\* first one that is rejected
RECURSIVE BulkUpsert(_, _)
BulkUpsert(coll, priceData) ==
  IF priceData = << >> THEN coll
  ELSE IF UpsertRejected(coll, Head(priceData)) THEN coll
  ELSE BulkUpsert(UpsertOne(coll, Head(priceData)), Tail(priceData))

----------------------------------------------------------------------------
(* The interpolation engine's arithmetic. *)

\* n / d rounded to the nearest integer, n >= 0, d > 0
RoundDiv(n, d) == (2 * n + d) \div (2 * d)

\* parseFloat(x.toFixed(8)) of the exact quotient n / d: the nearest multiple of 1e-8
Round8(n, d) == RoundDiv(n, Grain * d) * Grain

\* variant: an estimate is scored like a direct observation
CalculateConfidenceFull(before, after, num, den) == ConfOne

\* variant: the two time-gap factors are exchanged
CalculateConfidenceGapSwapped(before, after, num, den) ==
  LET change == Abs(after.price - before.price)
      c1 == IF 2 * change > before.price THEN (ConfBase * 7) \div 10
            ELSE IF 5 * change > before.price THEN (ConfBase * 85) \div 100
            ELSE ConfBase
      edge == den # 0 /\ (10 * num < den \/ 10 * num > 9 * den)
      c2 == IF edge THEN (c1 * 9) \div 10 ELSE c1
      timeGap == after.timestamp - before.timestamp
      c3 == IF timeGap > 48 * Hour THEN (c2 * 9) \div 10
            ELSE IF timeGap > 24 * Hour THEN (c2 * 8) \div 10
            ELSE c2
  IN  Max(ConfMin, Min(ConfOne, c3))

\* variant: the thresholds are inclusive
CalculateConfidenceInclusive(before, after, num, den) ==
  LET change == Abs(after.price - before.price)
      c1 == IF 2 * change >= before.price THEN (ConfBase * 7) \div 10
            ELSE IF 5 * change >= before.price THEN (ConfBase * 85) \div 100
            ELSE ConfBase
      edge == den # 0 /\ (10 * num <= den \/ 10 * num >= 9 * den)
      c2 == IF edge THEN (c1 * 9) \div 10 ELSE c1
      timeGap == after.timestamp - before.timestamp
      c3 == IF timeGap >= 48 * Hour THEN (c2 * 8) \div 10
            ELSE IF timeGap >= 24 * Hour THEN (c2 * 9) \div 10
            ELSE c2
  IN  Max(ConfMin, Min(ConfOne, c3))

\* calculateConfidence; ratio is num/den, NaN when den = 0
CalculateConfidence(before, after, num, den) ==
  LET change == Abs(after.price - before.price)
      c1 == IF 2 * change > before.price THEN (ConfBase * 7) \div 10
            ELSE IF 5 * change > before.price THEN (ConfBase * 85) \div 100
            ELSE ConfBase
      edge == den # 0 /\ (10 * num < den \/ 10 * num > 9 * den)
      c2 == IF edge THEN (c1 * 9) \div 10 ELSE c1
      timeGap == after.timestamp - before.timestamp
      c3 == IF timeGap > 48 * Hour THEN (c2 * 8) \div 10
            ELSE IF timeGap > 24 * Hour THEN (c2 * 9) \div 10
            ELSE c2
  IN  Max(ConfMin, Min(ConfOne, c3))

\* variant: the ratio is measured from the later bracket
CalculateInterpolationFromAfter(before, after, target) ==
  LET num == after.timestamp - target
      den == after.timestamp - before.timestamp
  IN  [ price |-> IF den = 0 THEN NaN
                  ELSE Round8(before.price * den + num * (after.price - before.price), den),
        confidence |-> CalculateConfidence(before, after, num, den) ]

\* calculateInterpolation: linear interpolation rounded to 8 decimals
CalculateInterpolation(before, after, target) ==
  LET num == target - before.timestamp
      den == after.timestamp - before.timestamp
  IN  [ price |-> IF den = 0 THEN NaN
                  ELSE Round8(before.price * den + num * (after.price - before.price), den),
        confidence |-> CalculateConfidence(before, after, num, den) ]

\* variant: a gap of exactly maxGap is rejected too
InterpolationOfGapExclusive(before, after, token, network, target) ==
  IF before = None \/ after = None THEN None
  ELSE IF after.timestamp - before.timestamp >= MaxGap THEN None
  ELSE LET data == CalculateInterpolation(before, after, target)
       IN  NewTokenPrice(token, network, target, data.price, "interpolated",
                         data.confidence,
                         [ beforeTimestamp |-> before.timestamp,
                           afterTimestamp |-> after.timestamp,
                           beforePrice |-> before.price,
                           afterPrice |-> after.price ])

\* variant: a missing bracket is replaced by the one that was found
InterpolationOfOneSided(before, after, token, network, target) ==
  IF before = None /\ after = None THEN None
  ELSE LET b == IF before = None THEN after ELSE before
           a == IF after = None THEN before ELSE after
       IN  IF a.timestamp - b.timestamp > MaxGap THEN None
           ELSE LET data == CalculateInterpolation(b, a, target)
                IN  NewTokenPrice(token, network, target, data.price, "interpolated",
                                  data.confidence,
                                  [ beforeTimestamp |-> b.timestamp,
                                    afterTimestamp |-> a.timestamp,
                                    beforePrice |-> b.price,
                                    afterPrice |-> a.price ])

\* interpolatePrice between the two lookups and save(): null, or the document to save
InterpolationOf(before, after, token, network, target) ==
  IF before = None \/ after = None THEN None
  ELSE IF after.timestamp - before.timestamp > MaxGap THEN None
  ELSE LET data == CalculateInterpolation(before, after, target)
       IN  NewTokenPrice(token, network, target, data.price, "interpolated",
                         data.confidence,
                         [ beforeTimestamp |-> before.timestamp,
                           afterTimestamp |-> after.timestamp,
                           beforePrice |-> before.price,
                           afterPrice |-> after.price ])

----------------------------------------------------------------------------
(* Results returned by resolvePrice and held in the cache. *)

\* variant: a stored price is always reported with confidence 1
StoreResultFullConfidence(doc) ==
  [ token |-> doc.token, network |-> doc.network, timestamp |-> doc.timestamp,
    price |-> doc.price, source |-> doc.source, confidence |-> ConfOne,
    interpolation |-> None ]

\* the result built from a stored document (confidence || 1)
StoreResult(doc) ==
  [ token |-> doc.token, network |-> doc.network, timestamp |-> doc.timestamp,
    price |-> doc.price, source |-> doc.source,
    confidence |-> IF doc.confidence = 0 THEN ConfOne ELSE doc.confidence,
    interpolation |-> None ]

\* the result built after a successful fetch and save
FetchResult(token, network, timestamp, price) ==
  [ token |-> ToLowerCase(token), network |-> ToLowerCase(network),
    timestamp |-> timestamp, price |-> price, source |-> "alchemy",
    confidence |-> ConfOne, interpolation |-> None ]

\* variant: an estimate is reported with the base confidence, whatever was saved
InterpResultBaseConfidence(token, network, timestamp, saved) ==
  [ token |-> ToLowerCase(token), network |-> ToLowerCase(network),
    timestamp |-> timestamp, price |-> saved.price, source |-> "interpolated",
    confidence |-> ConfBase, interpolation |-> saved.metadata ]

\* the result built from what interpolatePrice returned
InterpResult(token, network, timestamp, saved) ==
  [ token |-> ToLowerCase(token), network |-> ToLowerCase(network),
    timestamp |-> timestamp, price |-> saved.price, source |-> "interpolated",
    confidence |-> saved.confidence, interpolation |-> saved.metadata ]

\* variant: a cache hit returns the snapshot without its interpolation details
CacheResultBare(cached) == [ cached EXCEPT !.source = "cache", !.interpolation = None ]

\* a cache hit: the cached snapshot with source overwritten
CacheResult(cached) == [ cached EXCEPT !.source = "cache" ]

\* this.cacheTTL = parseInt(process.env.PRICE_CACHE_TTL) || 300
ConfiguredTTL(env) == IF env = 0 THEN CacheTTL ELSE env

\* Math.floor(this.cacheTTL / 2)
HalfOf(cacheTTL) == cacheTTL \div 2

\* TTL of an entry written after interpolation: Math.floor(cacheTTL / 2)
HalfTTL == HalfOf(CacheTTL)

\* redisConnection.get when the command succeeds: the parsed value or null
RedisGet(store, key, connected) ==
  IF ~connected THEN None
  ELSE IF store[key] = None THEN None ELSE store[key].value

\* variant: set serialises the value and never sends it
RedisSetDropped(store, key, value, ttl, connected) == store

\* redisConnection.set when the command succeeds: SETEX key ttl value when ttl
\* is truthy, SET key value (no expiry) when it is 0
RedisSet(store, key, value, ttl, connected) ==
  IF ~connected THEN store
  ELSE [ store EXCEPT ![key] = [ value |-> value,
                                 ttl |-> IF ttl = 0 THEN NoExpiry ELSE ttl ] ]

----------------------------------------------------------------------------
(* State. *)

VARIABLES
  docs,         \* the token_prices collection, a bag of documents
  cache,        \* Redis: price key -> [value, ttl] or None
  cacheClient,  \* OracleService.cacheClient / RedisConnection.client is non-null
  isConnected,  \* RedisConnection.isConnected
  pc,           \* per request: the await its handler is suspended at
  req,          \* per request: the arguments of resolvePrice
  loc,          \* per request: alchemyPrice, bracket lookups, pending result
  outcome,      \* per request: what the call returned or threw
  obs,          \* per request: tiers the running call has entered
  job,          \* the collection job: data, queue state, progress, return value
  jpc,          \* the job processor: the await it is suspended at
  jloc,         \* the job processor: loop indices, tallies, priceData
  jobs,         \* per item index of the job: how processBatch left it
  seqA,         \* a sequential run with the cache: its store, cache, last answer
  seqB,         \* the same run with cacheClient null
  seqN,         \* calls made in the sequential runs
  fetcher,      \* the sequential runs' fetcher: timestamp -> price or None
  sched,        \* scheduleHistoricalDataCollection: what each call returned or threw
  ups,          \* a collection written through TokenPrice.bulkUpsert, and the last call
  interp,       \* calculateInterpolation: the last arguments and what it returned
  ip,           \* interpolatePrice called on a store of its own: store, target, result
  conf,         \* calculateConfidence for one bracket at two gaps
  ttlrun,       \* a service configured with its own PRICE_CACHE_TTL, and the clock
  mem,          \* PriceService: the in-process cache, the clock and the calls of getCachedData
  minute        \* the running minute: jobs and fetch calls started in it

resolveVars == <<pc, req, loc, outcome, obs>>
jobVars == <<job, jpc, jloc, jobs>>
seqVars == <<seqA, seqB, seqN, fetcher>>
funVars == <<sched, ups, interp, ip, conf, ttlrun, mem>>
vars == <<docs, cache, cacheClient, isConnected, pc, req, loc, outcome, obs,
          job, jpc, jloc, jobs, seqA, seqB, seqN, fetcher, sched, ups, interp,
          ip, conf, ttlrun, mem, minute>>

CacheKeys == { GeneratePriceKey(t, n, ts) : t \in Tokens, n \in Networks, ts \in ReqTS }

NoLocals == [ alchemyPrice |-> None, before |-> None, after |-> None,
              asked |-> {}, pending |-> None ]
NoOutcome == [ kind |-> "none" ]
Returned(result) == [ kind |-> "ok", result |-> result ]
Threw(err) == [ kind |-> "error", err |-> err ]
NoObs == [ exactHit |-> FALSE, fetchCalls |-> 0, interpCalls |-> 0 ]

\* documents the store may hold before the first request
Seed(ts, price) == NewTokenPrice("0xab", "ethereum", ts, price, "alchemy", ConfOne, None)
SeedStores == { EmptyBag,
                SetToBag({Seed(T0, 10)}),
                SetToBag({Seed(T0, 10), Seed(T0 + Day, 20)}) }

\* job.data.timestamps: one timestamp per day, n days from first
DailyTimestamps(first, n) == [ i \in 1..n |-> first + (i - 1) * Day ]

NoJobLocals == [ i |-> 1, k |-> 1, attempt |-> 0, failedAttempts |-> 0, priceData |-> None,
                 processed |-> 0, successful |-> 0, failed |-> 0, progress |-> 0 ]

\* requests that will arrive: the others stay "none"
InitResolve(arriving) ==
  /\ pc = [ r \in Resolvers |-> IF r \in arriving THEN "idle" ELSE "none" ]
  /\ req = [ r \in Resolvers |-> None ]
  /\ loc = [ r \in Resolvers |-> NoLocals ]
  /\ outcome = [ r \in Resolvers |-> NoOutcome ]
  /\ obs = [ r \in Resolvers |-> NoObs ]

InitJob(timestamps) ==
  /\ job = [ id |-> QueuedId, token |-> "0xab", network |-> "ethereum",
             timestamps |-> timestamps,
             state |-> "waiting", progress |-> 0, returnvalue |-> None,
             attemptsMade |-> 0, cancels |-> 0, cancelAt |-> 0, cancelResult |-> "none" ]
  /\ jpc = "wait"
  /\ jloc = NoJobLocals
  /\ jobs = [ i \in DOMAIN timestamps |-> "pending" ]

InitShared ==
  /\ docs \in SeedStores
  /\ cache = [ k \in CacheKeys |-> None ]
  /\ cacheClient \in BOOLEAN
  /\ isConnected = cacheClient

NoCache == [ k \in CacheKeys |-> None ]

\* no sequential comparison is running
InitSeqIdle ==
  /\ seqA = [ docs |-> EmptyBag, cache |-> NoCache, out |-> NoOutcome ]
  /\ seqB = seqA
  /\ seqN = 0
  /\ fetcher = [ ts \in ReqTS |-> None ]

\* nothing has been scheduled, bulk-written or interpolated on its own
NoUpserts == [ docs |-> EmptyBag, before |-> EmptyBag, points |-> << >>, calls |-> 0 ]
NoIp == [ docs |-> EmptyBag, before |-> EmptyBag, target |-> 0, saveOk |-> TRUE,
          out |-> NoOutcome, calls |-> 0 ]
NoTTLRun == [ on |-> FALSE ]
\* PriceService after construction: this.cache = new Map(), no call made
NoMem == [ cache |-> None, now |-> 0, calls |-> 0, fetches |-> 0, caller |-> "a",
           pc |-> [ c \in {"a", "b"} |-> "idle" ],
           seen |-> [ c \in {"a", "b"} |-> None ],
           expiry |-> [ c \in {"a", "b"} |-> 0 ],
           fetch |-> [ c \in {"a", "b"} |-> "none" ],
           out |-> [ c \in {"a", "b"} |-> NoOutcome ] ]

InitFunIdle ==
  /\ sched = << >>
  /\ ups = NoUpserts
  /\ interp = None
  /\ ip = NoIp
  /\ conf = None
  /\ ttlrun = NoTTLRun
  /\ mem = NoMem

\* the run does not follow the clock: nothing is counted per minute
NoClock == [ on |-> FALSE, jobs |-> 0, fetches |-> 0 ]

\* two concurrent requests and a job for the day both may ask for
Init ==
  /\ InitShared
  /\ InitResolve(Resolvers)
  /\ InitJob(DailyTimestamps(T0 + Day, 1))
  /\ InitSeqIdle
  /\ InitFunIdle
  /\ minute = NoClock

\* a job of JobLen days and one concurrent request
InitJobRun ==
  /\ InitShared
  /\ InitResolve({"r1"})
  /\ InitJob(DailyTimestamps(T0, JobLen))
  /\ InitSeqIdle
  /\ InitFunIdle
  /\ minute = NoClock

\* a job of JobLen days alone with its queue; no Redis result cache
InitQueue ==
  /\ docs \in SeedStores
  /\ cache = NoCache
  /\ cacheClient = FALSE
  /\ isConnected = FALSE
  /\ InitResolve({})
  /\ InitJob(DailyTimestamps(T0, JobLen))
  /\ InitSeqIdle
  /\ InitFunIdle

\* no request, no job and no cache: the state around a call studied on its own
InitQuiet ==
  /\ docs = EmptyBag
  /\ cache = NoCache
  /\ cacheClient = FALSE
  /\ isConnected = FALSE
  /\ InitResolve({})
  /\ InitJob(<< >>)
  /\ InitSeqIdle
  /\ minute = NoClock

\* two copies of the service over the same store and fetcher, one with Redis
\* and one without, before the first of a sequence of calls
InitSeq ==
  /\ docs = EmptyBag
  /\ cache = NoCache
  /\ cacheClient = FALSE
  /\ isConnected = FALSE
  /\ InitResolve({})
  /\ InitJob(<< >>)
  /\ \E s \in SeedStores :
       /\ seqA = [ docs |-> s, cache |-> NoCache, out |-> NoOutcome ]
       /\ seqB = seqA
  /\ seqN = 0
  /\ fetcher \in [ ReqTS -> PriceData \cup {None} ]
  /\ InitFunIdle
  /\ minute = NoClock

----------------------------------------------------------------------------
(* OracleService.getTokenPriceAtTimestamp, one action per await. *)

KeyOf(r) == GeneratePriceKey(req[r].token, req[r].network, req[r].timestamp)

\* the call ends: return or throw; locals are dropped
Finish(r, out) ==
  /\ pc' = [ pc EXCEPT ![r] = "done" ]
  /\ outcome' = [ outcome EXCEPT ![r] = out ]
  /\ loc' = [ loc EXCEPT ![r] = NoLocals ]

Goto(r, label) ==
  /\ pc' = [ pc EXCEPT ![r] = label ]
  /\ UNCHANGED outcome

\* variant: the store hit returns only from inside the caching branch
AfterExactLookupNoReturn(found, client) ==
  IF found /\ client THEN "cacheSetStore" ELSE "fetch"

\* where the call goes after the exact lookup
AfterExactLookup(found, client) ==
  IF found THEN (IF client THEN "cacheSetStore" ELSE "return") ELSE "fetch"

\* a request arrives; the cache is consulted only when cacheClient is set
Call(r) ==
  /\ pc[r] = "idle"
  /\ \E t \in Tokens, n \in Networks, ts \in ReqTS :
       req' = [ req EXCEPT ![r] = [ token |-> t, network |-> n, timestamp |-> ts ] ]
  /\ pc' = [ pc EXCEPT ![r] = IF cacheClient THEN "cacheGet" ELSE "findExact" ]
  /\ UNCHANGED <<docs, cache, cacheClient, isConnected, loc, outcome, obs, jobVars, seqVars, funVars, minute>>

\* 1. await redisConnection.get(cacheKey): a hit returns; a miss, a skipped or a
\* failed read (caught inside get) fall through
CacheGet(r) ==
  /\ pc[r] = "cacheGet"
  /\ \E fails \in BOOLEAN :
       LET cached == IF fails THEN None ELSE RedisGet(cache, KeyOf(r), isConnected)
       IN  IF cached # None
           THEN Finish(r, Returned(CacheResult(cached)))
           ELSE Goto(r, "findExact") /\ UNCHANGED loc
  /\ UNCHANGED <<docs, cache, cacheClient, isConnected, req, obs, jobVars, seqVars, funVars, minute>>

\* 2. await TokenPrice.findOne(exact timestamp)
FindExact(r) ==
  /\ pc[r] = "findExact"
  /\ \/ \* the query rejects: the outer catch rethrows
        /\ Finish(r, Threw("store"))
        /\ UNCHANGED obs
     \/ LET found == Matching(docs, req[r].token, req[r].network, req[r].timestamp)
            next == AfterExactLookup(found # {}, cacheClient)
        IN  IF found = {}
            THEN Goto(r, next) /\ UNCHANGED <<loc, obs>>
            ELSE \E d \in found :
                   /\ obs' = [ obs EXCEPT ![r].exactHit = TRUE ]
                   /\ IF next = "return"
                      THEN Finish(r, Returned(StoreResult(d)))
                      ELSE /\ Goto(r, next)
                           /\ loc' = [ loc EXCEPT ![r].pending = StoreResult(d) ]
  /\ UNCHANGED <<docs, cache, cacheClient, isConnected, req, jobVars, seqVars, funVars, minute>>

\* await redisConnection.set(cacheKey, result, ttl): skipped when Redis is not
\* connected; a rejected command is not caught inside set (the client's promise
\* is returned without await) and reaches the caller's catch
CacheSet(r, label, ttl, onReject) ==
  /\ pc[r] = label
  /\ \/ /\ cache' = RedisSet(cache, KeyOf(r), loc[r].pending, ttl, isConnected)
        /\ Finish(r, Returned(loc[r].pending))
     \/ /\ isConnected
        /\ UNCHANGED cache
        /\ IF onReject = "throw"
           THEN Finish(r, Threw("cache"))
           ELSE Goto(r, onReject) /\ loc' = [ loc EXCEPT ![r].pending = None ]
  /\ UNCHANGED <<docs, cacheClient, isConnected, req, obs, jobVars, seqVars, funVars, minute>>

\* the store hit is cached with the full TTL
CacheSetStore(r) == CacheSet(r, "cacheSetStore", CacheTTL, "throw")

\* 3. await this.fetchPriceFromAlchemy: a price, nothing, or an error that is caught
Fetch(r) ==
  /\ pc[r] = "fetch"
  /\ obs' = [ obs EXCEPT ![r].fetchCalls = @ + 1 ]
  /\ \/ \E data \in PriceData :
          /\ loc' = [ loc EXCEPT ![r].alchemyPrice = data ]
          /\ Goto(r, "saveFetched")
     \/ Goto(r, "interpolate") /\ UNCHANGED loc
  /\ UNCHANGED <<docs, cache, cacheClient, isConnected, req, jobVars, seqVars, funVars, minute>>

\* await priceRecord.save() inside the fetch try block
SaveFetched(r) ==
  /\ pc[r] = "saveFetched"
  /\ LET doc == NewTokenPrice(req[r].token, req[r].network, req[r].timestamp,
                              loc[r].alchemyPrice.price, "alchemy", ConfOne, None)
         result == FetchResult(req[r].token, req[r].network, req[r].timestamp,
                               loc[r].alchemyPrice.price)
     IN  \/ /\ CanSave(docs, doc)
            /\ docs' = Insert(docs, doc)
            /\ IF cacheClient
               THEN Goto(r, "cacheSetFetch") /\ loc' = [ loc EXCEPT ![r].pending = result ]
               ELSE Finish(r, Returned(result))
         \/ \* rejected by the index or the database: caught as alchemyError
            /\ Goto(r, "interpolate")
            /\ UNCHANGED <<docs, loc>>
  /\ UNCHANGED <<cache, cacheClient, isConnected, req, obs, jobVars, seqVars, funVars, minute>>

\* the fetched price is cached with the full TTL, still inside the fetch try block
CacheSetFetch(r) == CacheSet(r, "cacheSetFetch", CacheTTL, "interpolate")

\* 4. interpolationService.interpolatePrice is called: findNearestPrices issues
\* both queries at once (Promise.all)
InterpolatePrice(r) ==
  /\ pc[r] = "interpolate"
  /\ obs' = [ obs EXCEPT ![r].interpCalls = @ + 1 ]
  /\ Goto(r, "nearest")
  /\ UNCHANGED <<docs, cache, cacheClient, isConnected, req, loc, jobVars, seqVars, funVars, minute>>

\* both lookups have answered: null ends the call with "No price data found"
AfterNearest(r, l) ==
  IF l.asked # {"before", "after"}
  THEN Goto(r, "nearest") /\ loc' = [ loc EXCEPT ![r] = l ]
  ELSE IF InterpolationOf(l.before, l.after, req[r].token, req[r].network,
                          req[r].timestamp) = None
  THEN Finish(r, Threw("noprice"))
  ELSE Goto(r, "saveInterp") /\ loc' = [ loc EXCEPT ![r] = l ]

\* the query for the nearest document at or before the target is answered
FindBefore(r) ==
  /\ pc[r] = "nearest"
  /\ "before" \notin loc[r].asked
  /\ \/ Finish(r, Threw("store"))
     \/ LET c == BeforeCandidates(docs, req[r].token, req[r].network, req[r].timestamp)
        IN  \E d \in (IF c = {} THEN {None} ELSE c) :
              AfterNearest(r, [ loc[r] EXCEPT !.before = d, !.asked = @ \cup {"before"} ])
  /\ UNCHANGED <<docs, cache, cacheClient, isConnected, req, obs, jobVars, seqVars, funVars, minute>>

\* the query for the nearest document at or after the target is answered
FindAfter(r) ==
  /\ pc[r] = "nearest"
  /\ "after" \notin loc[r].asked
  /\ \/ Finish(r, Threw("store"))
     \/ LET c == AfterCandidates(docs, req[r].token, req[r].network, req[r].timestamp)
        IN  \E d \in (IF c = {} THEN {None} ELSE c) :
              AfterNearest(r, [ loc[r] EXCEPT !.after = d, !.asked = @ \cup {"after"} ])
  /\ UNCHANGED <<docs, cache, cacheClient, isConnected, req, obs, jobVars, seqVars, funVars, minute>>

\* calculateInterpolation has run; await interpolatedPrice.save(): an error is rethrown
SaveInterp(r) ==
  /\ pc[r] = "saveInterp"
  /\ LET doc == InterpolationOf(loc[r].before, loc[r].after, req[r].token,
                                req[r].network, req[r].timestamp)
         result == InterpResult(req[r].token, req[r].network, req[r].timestamp, doc)
     IN  \/ /\ CanSave(docs, doc)
            /\ docs' = Insert(docs, doc)
            /\ IF cacheClient
               THEN Goto(r, "cacheSetInterp") /\ loc' = [ loc EXCEPT ![r].pending = result ]
               ELSE Finish(r, Returned(result))
         \/ /\ Finish(r, Threw("store"))
            /\ UNCHANGED docs
  /\ UNCHANGED <<cache, cacheClient, isConnected, req, obs, jobVars, seqVars, funVars, minute>>

\* the interpolated result is cached with half the TTL
CacheSetInterp(r) == CacheSet(r, "cacheSetInterp", HalfTTL, "throw")

Resolve(r) ==
  \/ Call(r)
  \/ CacheGet(r)
  \/ FindExact(r)
  \/ CacheSetStore(r)
  \/ Fetch(r)
  \/ SaveFetched(r)
  \/ CacheSetFetch(r)
  \/ InterpolatePrice(r)
  \/ FindBefore(r)
  \/ FindAfter(r)
  \/ SaveInterp(r)
  \/ CacheSetInterp(r)

----------------------------------------------------------------------------
(* Redis itself. *)

\* an entry whose TTL has run out is dropped
Expire ==
  /\ \E k \in CacheKeys :
       /\ cache[k] # None
       /\ cache' = [ cache EXCEPT ![k] = None ]
  /\ UNCHANGED <<docs, cacheClient, isConnected, resolveVars, jobVars, seqVars, funVars, minute>>

\* the client's "connect", "error" and "close" events set and clear isConnected
ConnectionEvent ==
  /\ cacheClient
  /\ isConnected' = ~isConnected
  /\ UNCHANGED <<docs, cache, cacheClient, resolveVars, jobVars, seqVars, funVars, minute>>

----------------------------------------------------------------------------
(* QueueService.processPriceCollectionJob and processBatch, one action per await. *)

Len0 == Len(job.timestamps)

\* variant: the slice has no end, the batch runs to the end of the list
BatchEndOpen(i) == Len0

\* index of the last item of the batch that starts at i: timestamps.slice(i, i + batchSize)
BatchEnd(i) == Min(i + BatchSize - 1, Len0)
BatchLength(i) == BatchEnd(i) - i + 1

\* variant: the percentage of the timestamps still to process
ProgressOfRemaining(processed, total) == RoundDiv((total - processed) * 100, total)

\* Math.round((processed / timestamps.length) * 100)
ProgressOf(processed, total) == RoundDiv(processed * 100, total)

\* variant: processBatch has no try/catch around one timestamp, so an error
\* leaves the batch; the caller counts the batch failed and goes on
ItemDoneNoCatch(status, isError) ==
  /\ jobs' = [ jobs EXCEPT ![jloc.k] = status ]
  /\ IF isError
     THEN /\ jloc' = [ jloc EXCEPT !.attempt = 0, !.failedAttempts = 0, !.priceData = None,
                                   !.failed = @ + BatchLength(jloc.i) ]
          /\ jpc' = "delay"
     ELSE IF jloc.k < BatchEnd(jloc.i)
     THEN /\ jloc' = [ jloc EXCEPT !.k = @ + 1, !.attempt = 0, !.failedAttempts = 0,
                                   !.priceData = None ]
          /\ jpc' = "check"
     ELSE /\ jloc' = [ jloc EXCEPT
                         !.attempt = 0, !.failedAttempts = 0, !.priceData = None,
                         !.successful = @ + BatchLength(jloc.i),
                         !.processed = @ + BatchLength(jloc.i),
                         !.progress = ProgressOf(jloc.processed + BatchLength(jloc.i), Len0) ]
          /\ jpc' = "progress"

\* the item at jloc.k is finished with the given status.  An error thrown while
\* one timestamp is handled is caught inside the loop of processBatch, which
\* continues with the next timestamp.  After the batch's last item processBatch
\* returns and the caller adds the whole batch to successful and processed, then
\* awaits job.updateProgress
ItemDone(status, isError) ==
  /\ jobs' = [ jobs EXCEPT ![jloc.k] = status ]
  /\ IF jloc.k < BatchEnd(jloc.i)
     THEN /\ jloc' = [ jloc EXCEPT !.k = @ + 1, !.attempt = 0, !.failedAttempts = 0,
                                   !.priceData = None ]
          /\ jpc' = "check"
     ELSE /\ jloc' = [ jloc EXCEPT
                         !.attempt = 0, !.failedAttempts = 0, !.priceData = None,
                         !.successful = @ + BatchLength(jloc.i),
                         !.processed = @ + BatchLength(jloc.i),
                         !.progress = ProgressOf(jloc.processed + BatchLength(jloc.i), Len0) ]
          /\ jpc' = "progress"

\* the worker's limiter { max, duration: 60000 } admits a job while fewer than
\* max jobs were started in the running minute
LimiterAdmits(m) == m.on => m.jobs < RateLimit

\* one more job started in the running minute
CountJob(m) == IF m.on THEN [ m EXCEPT !.jobs = @ + 1 ] ELSE m

\* one more call of fetchHistoricalPrice in the running minute; the count stops
\* one above the limit
CountFetch(m) ==
  IF m.on THEN [ m EXCEPT !.fetches = Min(@ + 1, RateLimit + 1) ] ELSE m

\* the worker takes the job from the queue and calls the processor
JobStart ==
  /\ jpc = "wait"
  /\ job.state = "waiting"
  /\ LimiterAdmits(minute)
  /\ minute' = CountJob(minute)
  /\ job' = [ job EXCEPT !.state = "active", !.attemptsMade = @ + 1 ]
  /\ jpc' = "check"
  /\ jloc' = NoJobLocals
  /\ UNCHANGED <<docs, cache, cacheClient, isConnected, resolveVars, jobs, seqVars, funVars>>

\* await TokenPrice.findOne: an existing price is skipped
JobCheck ==
  /\ jpc = "check"
  /\ \/ ItemDone("error", TRUE)
     \/ LET found == Matching(docs, job.token, job.network, job.timestamps[jloc.k])
        IN  IF found # {}
            THEN ItemDone("ok", FALSE)
            ELSE /\ jpc' = "fetch"
                 /\ jloc' = [ jloc EXCEPT !.attempt = 1 ]
                 /\ UNCHANGED jobs
  /\ UNCHANGED <<docs, cache, cacheClient, isConnected, resolveVars, job, seqVars, funVars, minute>>

\* the call raised: onFailedAttempt is run, and pRetry calls again until
\* 1 + retries calls have failed, then rejects
FetchRaised ==
  IF jloc.attempt <= Retries
  THEN /\ jloc' = [ jloc EXCEPT !.attempt = @ + 1, !.failedAttempts = @ + 1 ]
       /\ UNCHANGED <<jpc, jobs>>
  ELSE ItemDone("exhausted", TRUE)

\* variant: a call that resolves with nothing is called again like one that raised
FetchedNothingRetried ==
  IF jloc.attempt <= Retries
  THEN /\ jloc' = [ jloc EXCEPT !.attempt = @ + 1 ]
       /\ UNCHANGED <<jpc, jobs>>
  ELSE ItemDone("exhausted", TRUE)

\* the call resolved with nothing: pRetry resolves with it, if (priceData) is
\* false and the loop goes to the next timestamp
FetchedNothing == ItemDone("ok", FALSE)

\* one call of fetchHistoricalPrice made by pRetry(..., { retries }): data,
\* nothing, or an error; jloc.attempt is the number of the call and
\* jloc.failedAttempts the number of calls that raised
JobFetch ==
  /\ jpc = "fetch"
  /\ \/ \E data \in PriceData :
          /\ jpc' = "save"
          /\ jloc' = [ jloc EXCEPT !.priceData = data ]
          /\ UNCHANGED jobs
     \/ FetchedNothing
     \/ FetchRaised
  /\ minute' = CountFetch(minute)
  /\ UNCHANGED <<docs, cache, cacheClient, isConnected, resolveVars, job, seqVars, funVars>>

\* await priceRecord.save()
JobSave ==
  /\ jpc = "save"
  /\ LET doc == NewTokenPrice(job.token, job.network, job.timestamps[jloc.k],
                              jloc.priceData.price, "alchemy", ConfOne, None)
     IN  \/ /\ CanSave(docs, doc)
            /\ docs' = Insert(docs, doc)
            /\ ItemDone("ok", FALSE)
         \/ /\ UNCHANGED docs
            /\ ItemDone("error", TRUE)
  /\ UNCHANGED <<cache, cacheClient, isConnected, resolveVars, job, seqVars, funVars, minute>>

\* the loop goes to the next batch, or ends: the processor returns its result
\* and the worker marks the job completed
AfterBatch(j, l) ==
  IF l.i + BatchSize <= Len0
  THEN /\ jloc' = [ l EXCEPT !.i = @ + BatchSize, !.k = l.i + BatchSize ]
       /\ jpc' = "check"
       /\ job' = j
  ELSE /\ jloc' = l
       /\ jpc' = "done"
       /\ job' = [ j EXCEPT !.state = "completed",
                            !.returnvalue = [ totalTimestamps |-> Len0,
                                              successful |-> l.successful,
                                              failed |-> l.failed ] ]

\* await job.updateProgress(progress): when it throws the batch is counted failed
JobProgress ==
  /\ jpc = "progress"
  /\ \/ IF jloc.i + BatchSize <= Len0
        THEN /\ job' = [ job EXCEPT !.progress = jloc.progress ]
             /\ jpc' = "delay"
             /\ UNCHANGED jloc
        ELSE AfterBatch([ job EXCEPT !.progress = jloc.progress ], jloc)
     \/ AfterBatch(job, [ jloc EXCEPT !.failed = @ + BatchLength(jloc.i) ])
  /\ UNCHANGED <<docs, cache, cacheClient, isConnected, resolveVars, jobs, seqVars, funVars, minute>>

\* the one-second pause between batches has passed
JobDelay ==
  /\ jpc = "delay"
  /\ AfterBatch(job, jloc)
  /\ UNCHANGED <<docs, cache, cacheClient, isConnected, resolveVars, jobs, seqVars, funVars, minute>>

ProcessJob == JobStart \/ JobCheck \/ JobFetch \/ JobSave \/ JobProgress \/ JobDelay

\* at-least-once delivery: the worker running the job is lost, or its
\* completion is not recorded, and the queue hands the same job, with the same
\* data, to a worker again; the processor starts from the first timestamp
JobRedelivered ==
  /\ job.state \in {"active", "completed"}
  /\ job.attemptsMade < MaxRuns
  /\ job' = [ job EXCEPT !.state = "waiting", !.progress = 0, !.returnvalue = None ]
  /\ jpc' = "wait"
  /\ jloc' = NoJobLocals
  /\ jobs' = [ i \in DOMAIN jobs |-> "pending" ]
  /\ UNCHANGED <<docs, cache, cacheClient, isConnected, resolveVars, seqVars, funVars, minute>>

\* a call of fetchHistoricalPrice whose promise never settles: pRetry is given
\* no timeout, so processBatch stays at its await
FetchNeverReturns ==
  /\ jpc = "fetch"
  /\ jpc' = "hung"
  /\ UNCHANGED <<docs, cache, cacheClient, isConnected, resolveVars, job, jloc, jobs,
                 seqVars, funVars, minute>>

\* the limiter's duration (60000 ms) has passed: a new minute starts
MinuteTick ==
  /\ minute.on
  /\ minute.jobs + minute.fetches > 0
  /\ minute' = [ minute EXCEPT !.jobs = 0, !.fetches = 0 ]
  /\ UNCHANGED <<docs, cache, cacheClient, isConnected, resolveVars, jobVars, seqVars,
                 funVars>>

----------------------------------------------------------------------------
(* OracleService.scheduleHistoricalDataCollection. *)

\* networks a collection may be scheduled for
SchedNetworks == {"ethereum", "polygon"}

\* what alchemyConnection.getTokenCreationTimestamp does: the first transfer's
\* block timestamp, null (value 0: no transfer found), or an error
CreationTimes == {T0, T0 + Hour}
AlchemyAnswers ==
  { [ kind |-> "timestamp", value |-> t ] : t \in CreationTimes }
    \cup { [ kind |-> "null", value |-> 0 ], [ kind |-> "raise", value |-> 0 ] }

\* OracleService.getTokenCreationTimestamp: the collaborator's value, or the
\* per-network fallback when it throws.  0 stands for null (both are falsy)
GetTokenCreationTimestamp(network, answer) ==
  IF answer.kind = "raise"
  THEN (IF ToLowerCase(network) = "ethereum" THEN EthereumLaunch ELSE PolygonLaunch)
  ELSE answer.value

\* moment.unix(ts).startOf('day'), in UTC
StartOfDay(ts) == ts - (ts % Day)

\* the loop of generateDailyTimestamps: push current, add one day, while
\* current.isSameOrBefore(end)
RECURSIVE DailyFrom(_, _)
DailyFrom(current, end) ==
  IF current <= end THEN <<current>> \o DailyFrom(current + Day, end) ELSE << >>

\* a variant whose loop starts at the start timestamp itself
GenerateDailyFromStart(startTimestamp, now) == DailyFrom(startTimestamp, now)

\* generateDailyTimestamps, with moment() read as now
GenerateDailyTimestamps(startTimestamp, now) ==
  DailyFrom(StartOfDay(startTimestamp), now)

\* QueueService.addPriceCollectionJob: priceQueue.add returns the job, with
\* the id the queue gave it
AddPriceCollectionJob(data, id) == [ id |-> id, data |-> data ]

\* scheduleHistoricalDataCollection: throws when no creation timestamp was
\* determined, else queues a job with the daily timestamps from the creation
\* day to now and returns it
ScheduleHistoricalDataCollection(token, network, answer, now, id) ==
  LET creationTimestamp == GetTokenCreationTimestamp(network, answer)
  IN  IF creationTimestamp = 0
      THEN Threw("Could not determine creation timestamp")
      ELSE [ kind |-> "ok",
             job |-> AddPriceCollectionJob(
                       [ token |-> token, network |-> network,
                         timestamps |->
                           GenerateDailyTimestamps(creationTimestamp, now),
                         creationTimestamp |-> creationTimestamp ], id) ]

\* OracleController.scheduleDataCollection: the response carries job.id, or
\* status 500 when the service threw
ScheduleDataCollection(out) ==
  IF out.kind = "ok" THEN [ status |-> 200, jobId |-> out.job.id ]
  ELSE [ status |-> 500, jobId |-> 0 ]

\* time passed between the creation timestamp and the call: whole days and
\* parts of a day
ElapsedTimes == { d * Day + h : d \in 0..MaxDays, h \in {0, Hour, Day - Hour} }

\* POST /schedule: one call; the queue numbers its jobs
Schedule ==
  /\ Len(sched) < MaxSched
  /\ \E token \in Tokens, network \in SchedNetworks, answer \in AlchemyAnswers,
        elapsed \in ElapsedTimes :
       LET now == GetTokenCreationTimestamp(network, answer) + elapsed
           out == ScheduleHistoricalDataCollection(token, network, answer, now,
                                                   Len(sched) + 1)
       IN  sched' = Append(sched, [ network |-> network, answer |-> answer,
                                    now |-> now, out |-> out,
                                    response |-> ScheduleDataCollection(out) ])
  /\ UNCHANGED <<docs, cache, cacheClient, isConnected, resolveVars, jobVars, seqVars,
                 ups, interp, ip, conf, ttlrun, mem, minute>>

----------------------------------------------------------------------------
(* calculateInterpolation called with brackets around the target. *)

\* bracket timestamps and targets: the documented example and the widest gap
InterpTimes == {0, 100, 150, 200, MaxGap}
\* bracket prices in units of 1e-9: some are multiples of 1e-8, some are not
InterpPrices == {10, 14, 15, 20, 10 * Grain, 20 * Grain}

CallInterpolation ==
  /\ \E tb \in InterpTimes, ta \in InterpTimes, target \in InterpTimes,
        pb \in InterpPrices, pa \in InterpPrices :
       /\ tb < target /\ target < ta
       /\ ta - tb <= MaxGap
       /\ LET before == [ timestamp |-> tb, price |-> pb ]
              after == [ timestamp |-> ta, price |-> pa ]
          IN  interp' = [ before |-> before, after |-> after, target |-> target,
                          out |-> CalculateInterpolation(before, after, target) ]
  /\ UNCHANGED <<docs, cache, cacheClient, isConnected, resolveVars, jobVars, seqVars,
                 sched, ups, ip, conf, ttlrun, mem, minute>>

----------------------------------------------------------------------------
(* A caller of TokenPrice.bulkUpsert. *)

BulkUpsertCall ==
  /\ ups.calls < MaxUpserts
  /\ \E priceData \in PointSeqs :
       ups' = [ docs |-> BulkUpsert(ups.docs, priceData), before |-> ups.docs,
                points |-> priceData, calls |-> ups.calls + 1 ]
  /\ UNCHANGED <<docs, cache, cacheClient, isConnected, resolveVars, jobVars, seqVars,
                 sched, interp, ip, conf, ttlrun, mem, minute>>

----------------------------------------------------------------------------
(* QueueService.cancelJob and getJobStatus.  A job that job.remove() has    *)
(* deleted from the queue is kept here with state "removed".                *)

\* this.priceQueue.getJob(jobId): the job, or null
GetJob(jobId) == IF jobId = job.id /\ job.state # "removed" THEN job ELSE None

\* getJobStatus(jobId) of a job record: null once the job is gone
GetJobStatus(j) ==
  IF j = None \/ j.state = "removed" THEN None
  ELSE [ id |-> j.id, state |-> j.state, progress |-> j.progress,
         returnvalue |-> j.returnvalue ]

\* cancelJob(jobId): false when getJob finds nothing; otherwise job.remove(),
\* which deletes a waiting or finished job and throws for an active job (it is
\* locked by the worker); the error is rethrown.  The processor is not told
CancelJob ==
  /\ job.cancels < MaxCancels
  /\ \E jobId \in JobIds :
       LET j == GetJob(jobId)
       IN  job' = IF j = None
                  THEN [ job EXCEPT !.cancels = @ + 1, !.cancelResult = "false" ]
                  ELSE IF j.state = "active"
                  THEN [ job EXCEPT !.cancels = @ + 1, !.cancelResult = "threw",
                                    !.cancelAt = IF @ = 0 THEN jloc.i ELSE @ ]
                  ELSE [ job EXCEPT !.cancels = @ + 1, !.cancelResult = "true",
                                    !.state = "removed" ]
  /\ UNCHANGED <<docs, cache, cacheClient, isConnected, resolveVars, jpc, jloc, jobs,
                 seqVars, funVars, minute>>

----------------------------------------------------------------------------
(* getTokenPriceAtTimestamp run from call to return with nothing interleaved *)
(* and no command failing: the sequential behaviour of the actions above.   *)

\* the nearest document of a lookup, or None
NearestOf(candidates) == IF candidates = {} THEN None ELSE CHOOSE d \in candidates : TRUE

\* tier 4 on the store w.docs
InterpolateSeq(w, client, connected, t, n, ts, cacheTTL) ==
  LET key == GeneratePriceKey(t, n, ts)
      doc == InterpolationOf(NearestOf(BeforeCandidates(w.docs, t, n, ts)),
                             NearestOf(AfterCandidates(w.docs, t, n, ts)), t, n, ts)
  IN  IF doc = None THEN [ w EXCEPT !.out = Threw("noprice") ]
      ELSE IF ~CanSave(w.docs, doc) THEN [ w EXCEPT !.out = Threw("store") ]
      ELSE LET result == InterpResult(t, n, ts, doc)
           IN  [ docs |-> Insert(w.docs, doc),
                 cache |-> IF client
                           THEN RedisSet(w.cache, key, result, HalfOf(cacheTTL), connected)
                           ELSE w.cache,
                 out |-> Returned(result) ]

\* tiers 1 to 3; fetched is what the fetcher returns for ts, or None; cacheTTL is
\* this.cacheTTL
ResolveSeq(w, client, connected, t, n, ts, fetched, cacheTTL) ==
  LET key == GeneratePriceKey(t, n, ts)
      cached == IF client THEN RedisGet(w.cache, key, connected) ELSE None
      found == Matching(w.docs, t, n, ts)
      doc == NewTokenPrice(t, n, ts, fetched.price, "alchemy", ConfOne, None)
  IN  IF cached # None THEN [ w EXCEPT !.out = Returned(CacheResult(cached)) ]
      ELSE IF AfterExactLookup(found # {}, client) # "fetch"
      THEN LET result == StoreResult(NearestOf(found))
           IN  [ w EXCEPT !.out = Returned(result),
                          !.cache = IF client
                                    THEN RedisSet(w.cache, key, result, cacheTTL, connected)
                                    ELSE w.cache ]
      ELSE IF fetched # None /\ CanSave(w.docs, doc)
      THEN LET result == FetchResult(t, n, ts, fetched.price)
           IN  [ docs |-> Insert(w.docs, doc),
                 cache |-> IF client THEN RedisSet(w.cache, key, result, cacheTTL, connected)
                           ELSE w.cache,
                 out |-> Returned(result) ]
      ELSE InterpolateSeq(w, client, connected, t, n, ts, cacheTTL)

\* the same request is served by both copies
CallBoth ==
  /\ seqN < MaxSeqCalls
  /\ seqN' = seqN + 1
  /\ \E t \in Tokens, n \in Networks, ts \in ReqTS, connected \in BOOLEAN :
       /\ seqA' = ResolveSeq(seqA, TRUE, connected, t, n, ts, fetcher[ts], CacheTTL)
       /\ seqB' = ResolveSeq(seqB, FALSE, FALSE, t, n, ts, fetcher[ts], CacheTTL)
  /\ UNCHANGED <<docs, cache, cacheClient, isConnected, resolveVars, jobVars, fetcher,
                 funVars, minute>>

\* an entry of the first copy's cache runs out
ExpireSeq ==
  /\ \E k \in CacheKeys :
       /\ seqA.cache[k] # None
       /\ seqA' = [ seqA EXCEPT !.cache[k] = None ]
  /\ UNCHANGED <<docs, cache, cacheClient, isConnected, resolveVars, jobVars,
                 seqB, seqN, fetcher, funVars, minute>>

----------------------------------------------------------------------------
(* A service whose PRICE_CACHE_TTL is set in the environment, serving calls  *)
(* one after another with Redis connected, and the clock that lets entries   *)
(* run out.                                                                  *)

\* the service and its cache before the first call; env 0: the variable is unset
TTLRunOf(env, store) ==
  [ on |-> TRUE, cacheTTL |-> ConfiguredTTL(env),
    w |-> [ docs |-> store, cache |-> NoCache, out |-> NoOutcome ],
    age |-> [ k \in CacheKeys |-> 0 ], clock |-> 0, calls |-> 0 ]

\* one call of getTokenPriceAtTimestamp; an entry it writes starts at age 0
CallTTL ==
  /\ ttlrun.on
  /\ ttlrun.calls < MaxTTLCalls
  /\ \E t \in Tokens, n \in Networks, ts \in ReqTS, fetched \in PriceData \cup {None} :
       LET w == ResolveSeq(ttlrun.w, TRUE, TRUE, t, n, ts, fetched, ttlrun.cacheTTL)
       IN  ttlrun' = [ ttlrun EXCEPT
                         !.w = w,
                         !.age = [ k \in CacheKeys |->
                                     IF w.cache[k] # ttlrun.w.cache[k] THEN 0 ELSE @[k] ],
                         !.calls = @ + 1 ]
  /\ UNCHANGED <<docs, cache, cacheClient, isConnected, resolveVars, jobVars, seqVars,
                 sched, ups, interp, ip, conf, mem, minute>>

\* an entry is dropped by Redis when its age reaches its TTL; an entry stored
\* without expiry stays
Expired(entry, age) == entry # None /\ entry.ttl # NoExpiry /\ age >= entry.ttl

\* one second passes
TickTTL ==
  /\ ttlrun.on
  /\ ttlrun.clock < MaxTTL + 1
  /\ ttlrun' = [ ttlrun EXCEPT
                   !.clock = @ + 1,
                   !.w.cache = [ k \in CacheKeys |->
                                   IF Expired(@[k], ttlrun.age[k] + 1) THEN None ELSE @[k] ],
                   !.age = [ k \in CacheKeys |->
                               IF ttlrun.w.cache[k] = None
                                  \/ Expired(ttlrun.w.cache[k], @[k] + 1)
                               THEN 0 ELSE @[k] + 1 ] ]
  /\ UNCHANGED <<docs, cache, cacheClient, isConnected, resolveVars, jobVars, seqVars,
                 sched, ups, interp, ip, conf, mem, minute>>

----------------------------------------------------------------------------
(* InterpolationService.interpolatePrice called on a store of its own, from  *)
(* call to return with nothing interleaved.                                  *)

\* timestamps of the stored documents: brackets one day, exactly 7 days, 7 days
\* and one second, and 8 days apart
BracketTimes == {T0, T0 + Day, T0 + MaxGap, T0 + MaxGap + 1, T0 + MaxGap + Day}

\* the stores interpolatePrice is called on: at most two documents
BracketStores ==
  {EmptyBag}
    \cup { SetToBag({Seed(ts, p)}) : ts \in BracketTimes, p \in Prices }
    \cup { SetToBag({Seed(tt[1], p1), Seed(tt[2], p2)}) :
             tt \in { x \in BracketTimes \X BracketTimes : x[1] < x[2] },
             p1 \in Prices, p2 \in Prices }

\* target timestamps
IpTargets == {T0 + 12 * Hour, T0 + Day, T0 + 2 * Day}

\* the object interpolatePrice returns after save()
InterpolatedData(doc) ==
  [ price |-> doc.price, confidence |-> doc.confidence,
    beforePrice |-> doc.metadata.beforePrice, afterPrice |-> doc.metadata.afterPrice,
    beforeTimestamp |-> doc.metadata.beforeTimestamp,
    afterTimestamp |-> doc.metadata.afterTimestamp ]

\* interpolatePrice(token, network, targetTimestamp): null when a bracket is
\* missing or the gap is too wide; otherwise the estimate is saved and returned,
\* and an error of save() is rethrown.  saveOk: the database accepts writes
InterpolatePriceOn(coll, token, network, target, saveOk) ==
  LET before == NearestOf(BeforeCandidates(coll, token, network, target))
      after == NearestOf(AfterCandidates(coll, token, network, target))
      doc == InterpolationOf(before, after, token, network, target)
  IN  IF doc = None THEN [ docs |-> coll, out |-> Returned(None) ]
      ELSE IF saveOk /\ CanSave(coll, doc)
      THEN [ docs |-> Insert(coll, doc), out |-> Returned(InterpolatedData(doc)) ]
      ELSE [ docs |-> coll, out |-> Threw("store") ]

CallInterpolatePrice ==
  /\ ip.calls < MaxIpCalls
  /\ \E token \in Tokens, network \in Networks, target \in IpTargets, saveOk \in BOOLEAN :
       LET r == InterpolatePriceOn(ip.docs, token, network, target, saveOk)
       IN  ip' = [ docs |-> r.docs, before |-> ip.docs, target |-> target,
                   saveOk |-> saveOk, out |-> r.out, calls |-> ip.calls + 1 ]
  /\ UNCHANGED <<docs, cache, cacheClient, isConnected, resolveVars, jobVars, seqVars,
                 sched, ups, interp, conf, ttlrun, mem, minute>>

----------------------------------------------------------------------------
(* calculateConfidence for the same bracket prices and the same ratio at two *)
(* bracket gaps.                                                             *)

\* bracket prices: no change, changes of 5%, 10%, 20%, 30%, 50% and 100%, and
\* a price of 0
ConfPrices == {0, 10, 11, 12, 13, 15, 20, 21}
\* the ratio in twentieths: near both edges, on the 0.1 and 0.9 marks, the middle
ConfRatios == {1, 2, 10, 18, 19}
\* bracket gaps in seconds: around the 24 h and 48 h marks, up to 7 days
ConfGaps == { h * Hour : h \in {1, 10, 24, 25, 48, 49, 50, 168} }

\* calculateInterpolation's call of calculateConfidence for brackets at 0 and
\* gap and the target at k/20 of the way
ConfidenceAt(pb, pa, k, gap) ==
  CalculateConfidence([ timestamp |-> 0, price |-> pb ],
                      [ timestamp |-> gap, price |-> pa ], k * (gap \div 20), gap)

CallConfidence ==
  /\ conf = None
  /\ \E pb \in ConfPrices, pa \in ConfPrices, k \in ConfRatios,
        narrow \in ConfGaps, wide \in ConfGaps :
       /\ narrow < wide
       /\ conf' = [ beforePrice |-> pb, afterPrice |-> pa, ratio20 |-> k,
                    narrow |-> narrow, wide |-> wide,
                    narrowOut |-> ConfidenceAt(pb, pa, k, narrow),
                    wideOut |-> ConfidenceAt(pb, pa, k, wide) ]
  /\ UNCHANGED <<docs, cache, cacheClient, isConnected, resolveVars, jobVars, seqVars,
                 sched, ups, interp, ip, ttlrun, mem, minute>>

----------------------------------------------------------------------------
(* PriceService.getCachedData over the in-process Map, for one key and two  *)
(* callers; TokenService.getCachedData is the same without customExpiry.    *)

\* cachedData && Date.now() - cachedData.timestamp < expiry
Fresh(cachedData, now, expiry) ==
  cachedData # None /\ now - cachedData.timestamp < expiry

\* variant: a failed fetch is always raised
OnFetchFailureRaise(cachedData) == Threw("fetch")

\* the catch of getCachedData: the entry read at the start, expired or not,
\* or the error when there was none
OnFetchFailure(cachedData) ==
  IF cachedData # None THEN Returned(cachedData.data) ELSE Threw("fetch")

\* getCachedData up to its await: a fresh entry is returned, else
\* fetchFunction is called
GetCachedDataCall ==
  /\ mem.calls < MaxMemCalls
  /\ \E c \in DOMAIN mem.pc, customExpiry \in {0, MemCacheExpiry \div 2} :
       /\ mem.pc[c] = "idle"
       /\ LET cachedData == mem.cache
              expiry == IF customExpiry = 0 THEN MemCacheExpiry ELSE customExpiry
              m == [ mem EXCEPT !.caller = c, !.calls = @ + 1, !.seen[c] = cachedData,
                                !.expiry[c] = expiry ]
          IN  IF Fresh(cachedData, mem.now, expiry)
              THEN mem' = [ m EXCEPT !.out[c] = Returned(cachedData.data),
                                     !.fetch[c] = "none" ]
              ELSE mem' = [ m EXCEPT !.pc[c] = "fetch", !.out[c] = NoOutcome,
                                     !.fetch[c] = "called", !.fetches = @ + 1 ]
  /\ UNCHANGED <<docs, cache, cacheClient, isConnected, resolveVars, jobVars, seqVars,
                 sched, ups, interp, ip, conf, ttlrun, minute>>

\* fetchFunction settles: its data is stored with the current time and
\* returned, or its error is handled by the catch
GetCachedDataSettle ==
  /\ \E c \in DOMAIN mem.pc :
       /\ mem.pc[c] = "fetch"
       /\ \/ \E data \in {1, 2} :
               mem' = [ mem EXCEPT !.cache = [ data |-> data, timestamp |-> mem.now ],
                                   !.out[c] = Returned(data), !.fetch[c] = "ok",
                                   !.pc[c] = "idle" ]
          \/ mem' = [ mem EXCEPT !.out[c] = OnFetchFailure(mem.seen[c]),
                                 !.fetch[c] = "failed", !.pc[c] = "idle" ]
  /\ UNCHANGED <<docs, cache, cacheClient, isConnected, resolveVars, jobVars, seqVars,
                 sched, ups, interp, ip, conf, ttlrun, minute>>

\* Date.now() advances by half the default expiry
MemClockTick ==
  /\ mem.now < MaxMemTicks * (MemCacheExpiry \div 2)
  /\ mem' = [ mem EXCEPT !.now = @ + (MemCacheExpiry \div 2) ]
  /\ UNCHANGED <<docs, cache, cacheClient, isConnected, resolveVars, jobVars, seqVars,
                 sched, ups, interp, ip, conf, ttlrun, minute>>

----------------------------------------------------------------------------

Next ==
  \/ \E r \in Resolvers : Resolve(r)
  \/ Expire
  \/ ConnectionEvent
  \/ ProcessJob

\* the steps of a job whose timestamps fit one batch: the pause between batches
\* (i + batchSize < timestamps.length) is never reached
NextOneBatch ==
  \/ \E r \in Resolvers : Resolve(r)
  \/ Expire
  \/ ConnectionEvent
  \/ JobStart \/ JobCheck \/ JobFetch \/ JobSave \/ JobProgress

NextSeq == CallBoth \/ ExpireSeq

NextCancel == ProcessJob \/ CancelJob

NextRate == ProcessJob \/ MinuteTick

NextHang == ProcessJob \/ FetchNeverReturns

NextRerun == ProcessJob \/ JobRedelivered

NextMem == GetCachedDataCall \/ GetCachedDataSettle \/ MemClockTick

NextTTL == CallTTL \/ TickTTL

\* two concurrent requests and a one-batch job
Spec == Init /\ [][NextOneBatch]_vars

\* one request and a job of several batches
SpecJob == InitJobRun /\ [][Next]_vars

SpecSeq == InitSeq /\ [][NextSeq]_vars

\* calls of bulkUpsert on a collection that starts as one of the seed stores
InitUpsert ==
  /\ InitQuiet
  /\ sched = << >>
  /\ interp = None
  /\ ip = NoIp
  /\ conf = None
  /\ ttlrun = NoTTLRun
  /\ mem = NoMem
  /\ \E s \in SeedStores : ups = [ NoUpserts EXCEPT !.docs = s, !.before = s ]

SpecUpsert == InitUpsert /\ [][BulkUpsertCall]_vars

\* calls of calculateInterpolation
InitInterp == InitQuiet /\ InitFunIdle

SpecInterp == InitInterp /\ [][CallInterpolation]_vars

\* calls of scheduleHistoricalDataCollection
InitSched == InitQuiet /\ InitFunIdle

SpecSched == InitSched /\ [][Schedule]_vars

\* calls of interpolatePrice on a store of at most two documents
InitNearest ==
  /\ InitQuiet
  /\ sched = << >>
  /\ ups = NoUpserts
  /\ interp = None
  /\ conf = None
  /\ ttlrun = NoTTLRun
  /\ mem = NoMem
  /\ \E s \in BracketStores : ip = [ NoIp EXCEPT !.docs = s, !.before = s ]

SpecNearest == InitNearest /\ [][CallInterpolatePrice]_vars

\* a service with PRICE_CACHE_TTL unset or 1..MaxTTL seconds
InitTTL ==
  /\ InitQuiet
  /\ sched = << >>
  /\ ups = NoUpserts
  /\ interp = None
  /\ ip = NoIp
  /\ conf = None
  /\ mem = NoMem
  /\ \E env \in 0..MaxTTL, s \in SeedStores : ttlrun = TTLRunOf(env, s)

SpecTTL == InitTTL /\ [][NextTTL]_vars

\* calls of calculateConfidence
InitConf == InitQuiet /\ InitFunIdle

SpecConf == InitConf /\ [][CallConfidence]_vars

\* a job under the worker's limiter, with the clock
InitRate == InitQueue /\ minute = [ on |-> TRUE, jobs |-> 0, fetches |-> 0 ]

SpecRate == InitRate /\ [][NextRate]_vars

\* a job whose price source may hang; the event loop runs the processor
\* whenever one of its awaits has settled
InitUntimed == InitQueue /\ minute = NoClock

SpecHang == InitUntimed /\ [][NextHang]_vars /\ WF_vars(ProcessJob)

\* a job run by the worker, nothing else
SpecQueue == InitUntimed /\ [][ProcessJob]_vars

\* the same, the event loop running the processor whenever its await has settled
SpecQueueFair == InitUntimed /\ [][ProcessJob]_vars /\ WF_vars(ProcessJob)

\* a job that the queue may deliver more than once
SpecRerun == InitUntimed /\ [][NextRerun]_vars

\* calls of getCachedData on a new PriceService
InitMem == InitQuiet /\ InitFunIdle

SpecMem == InitMem /\ [][NextMem]_vars

\* a job and calls of cancelJob
SpecCancel == InitUntimed /\ [][NextCancel]_vars

----------------------------------------------------------------------------
(* Properties. *)

Done(r) == pc[r] = "done"
Finishing(r) == pc[r] # "done" /\ pc'[r] = "done"
CacheSetLabels == {"cacheSetStore", "cacheSetFetch", "cacheSetInterp"}
StoredAt(coll, r) == Matching(coll, req[r].token, req[r].network, req[r].timestamp)
ItemsWith(status) == { i \in DOMAIN jobs : jobs[i] = status }

\* C1: in a call whose exact store lookup found a record, the fetcher and the
\* interpolation engine are never invoked.
C1_TierShortCircuit ==
  \A r \in Resolvers :
    obs[r].exactHit => obs[r].fetchCalls = 0 /\ obs[r].interpCalls = 0

C1_Witness ==
  \E r \in Resolvers :
    Done(r) /\ obs[r].exactHit /\ outcome[r].kind = "ok"
    /\ outcome[r].result.source = "alchemy"

\* C2: a call that returns no price fails with "no price available" and with
\* no other error.
C2_OnlyNoPriceError ==
  \A r \in Resolvers : outcome[r].kind = "error" => outcome[r].err = "noprice"

\* C3: a failing cache read is handled like a miss, and a cache write, failed
\* or not, ends the call with the result that was to be cached.
C3_CacheFailureHarmless ==
  [][ \A r \in Resolvers :
        /\ (pc[r] = "cacheGet" /\ pc'[r] # "cacheGet")
             => \/ pc'[r] = "findExact"
                \/ pc'[r] = "done" /\ outcome'[r].kind = "ok"
        /\ (pc[r] \in CacheSetLabels /\ pc'[r] # pc[r])
             => pc'[r] = "done" /\ outcome'[r] = Returned(loc[r].pending) ]_vars

C5_FetchedPriceReturned ==
  [][ \A r \in Resolvers :
        (Finishing(r) /\ loc[r].alchemyPrice # None) =>
          /\ outcome'[r].kind = "ok"
          /\ outcome'[r].result.price = loc[r].alchemyPrice.price
          /\ outcome'[r].result.confidence = ConfOne
          /\ \E d \in StoredAt(docs', r) :
               /\ d.price = loc[r].alchemyPrice.price
               /\ d.source = "alchemy"
               /\ d.confidence = ConfOne ]_vars

\* C6: when calculateInterpolation computes the ratio, the bracket documents
\* have distinct timestamps (afterTs > beforeTs).
C6_DistinctBrackets ==
  \A r \in Resolvers :
    pc[r] = "saveInterp" => loc[r].after.timestamp > loc[r].before.timestamp

\* C7: the store holds at most one document per (token, network, timestamp).
C7_UniqueKey ==
  \A d \in BagToSet(docs) :
    /\ CopiesIn(d, docs) = 1
    /\ \A e \in BagToSet(docs) :
         (e.token = d.token /\ e.network = d.network /\ e.timestamp = d.timestamp)
           => e = d

C7_Witness ==
  \E r \in Resolvers :
    /\ pc[r] = "interpolate"
    /\ loc[r].alchemyPrice # None
    /\ \E d \in StoredAt(docs, r) : d.price # loc[r].alchemyPrice.price

\* C8: when a call returns a result that did not come from the cache, the
\* store holds a document at the requested key and, if Redis is configured and
\* connected, the cache holds an entry for the key.
C8_WriteThrough ==
  [][ \A r \in Resolvers :
        (Finishing(r) /\ outcome'[r].kind = "ok"
                      /\ outcome'[r].result.source # "cache") =>
          /\ StoredAt(docs', r) # {}
          /\ (cacheClient /\ isConnected) => cache'[KeyOf(r)] # None ]_vars

C8_Witness ==
  \E r \in Resolvers :
    /\ Done(r) /\ outcome[r].kind = "ok"
    /\ outcome[r].result.source = "interpolated"
    /\ cache[KeyOf(r)] # None
    /\ cache[KeyOf(r)].value = outcome[r].result

\* C9: an item that fails (retries exhausted, or a store error) aborts neither
\* its batch nor the job: every timestamp before the current one has been
\* handled, a finished job has handled them all, and the job is never failed.
C9_FailureDoesNotAbort ==
  /\ job.state # "failed"
  /\ job.state = "active" => \A i \in 1..(jloc.k - 1) : jobs[i] # "pending"
  /\ job.state = "completed" => \A i \in DOMAIN jobs : jobs[i] # "pending"

C9_Witness ==
  /\ job.state = "completed"
  /\ jobs[1] = "exhausted"
  /\ jobs[2] = "ok"
  /\ jobs[Len0] = "ok"

\* C10: a finished job in which items failed only by exhausting their retries
\* (and every progress update succeeded) reports failed = the number of
\* exhausted items and successful = the number of the others.
C10_TalliesMatchItems ==
  (/\ job.state = "completed"
   /\ ItemsWith("error") = {}
   /\ job.returnvalue.successful + job.returnvalue.failed = Len0)
    => /\ job.returnvalue.failed = Cardinality(ItemsWith("exhausted"))
       /\ job.returnvalue.successful = Cardinality(ItemsWith("ok"))

Terminal == {"completed", "failed", "removed"}
CancelStep == job'.cancels # job.cancels

\* C11: once cancelJob was called while the job ran the batch starting at
\* cancelAt, the processor never goes to a later batch, and it ends with the
\* items of the batches up to that one processed.
C11_CancelHaltsAfterBatch ==
  job.cancelAt > 0 =>
    /\ jloc.i = job.cancelAt
    /\ jpc = "done" => jloc.processed = BatchEnd(job.cancelAt)

\* C12: a job changes state only by queued -> running, running -> completed,
\* running -> failed, queued -> cancelled or running -> cancelled (a removed job
\* being the cancelled one), and a cancel call on a queued or running job
\* leaves it cancelled.
C12_JobStateMachine ==
  [][ /\ job'.state # job.state =>
           <<job.state, job'.state>> \in
             { <<"waiting", "active">>, <<"active", "completed">>,
               <<"active", "failed">>, <<"waiting", "removed">>,
               <<"active", "removed">> }
      /\ (CancelStep /\ job.state \in {"waiting", "active"}) =>
           job'.state = "removed" ]_vars

\* C13: a cancel call that finds the job finished, failed or gone raises no
\* error and leaves what getJobStatus returns for the job unchanged.
C13_CancelTerminalNoOp ==
  [][ (CancelStep /\ job.state \in Terminal) =>
        /\ job'.cancelResult # "threw"
        /\ GetJobStatus(job') = GetJobStatus(job) ]_vars

\* C14: the fetcher is called at most 3 times for one timestamp of the job.
C14_AtMostThreeFetches == jpc = "fetch" => jloc.attempt <= 3

\* the documents of the job's series stored at a timestamp
PointsAt(coll, ts) ==
  { d \in BagToSet(coll) :
      d.token = job.token /\ d.network = job.network /\ d.timestamp = ts }

\* C16: an item whose timestamp has a stored document when it is checked is
\* not fetched, and the stored document stays as it is.
C16_StoredItemNotFetched ==
  [][ (jpc = "check" /\ PointsAt(docs, job.timestamps[jloc.k]) # {}) =>
        /\ jpc' # "fetch"
        /\ PointsAt(docs', job.timestamps[jloc.k]) = PointsAt(docs, job.timestamps[jloc.k])
        /\ \A d \in PointsAt(docs, job.timestamps[jloc.k]) :
             CopiesIn(d, docs') = CopiesIn(d, docs) ]_vars

C16_Witness ==
  /\ job.state = "active" /\ jpc = "check" /\ jloc.k = 2
  /\ jobs[1] = "ok"
  /\ PointsAt(docs, job.timestamps[1]) # {}
  /\ PointsAt(docs, job.timestamps[2]) = {}

\* C15: every schedule call returns a queued job, and when the metadata
\* collaborator gave no timestamp (null or an error) the job starts at the
\* network's default.
C15_ScheduleNeverFails ==
  \A i \in DOMAIN sched :
    /\ sched[i].out.kind = "ok"
    /\ sched[i].answer.kind # "timestamp" =>
         sched[i].out.job.data.creationTimestamp =
           (IF sched[i].network = "ethereum" THEN EthereumLaunch ELSE PolygonLaunch)

\* C17: the fetch calls started in one minute never exceed the configured
\* limit.
C17_FetchRateCapped == minute.on => minute.fetches <= RateLimit

\* C18: the job eventually finishes, also when a fetch call never returns.
C18_JobEventuallyFinishes == <>(job.state \in {"completed", "failed"})

PointKey(p) == <<ToLowerCase(p.token), ToLowerCase(p.network), p.timestamp>>
DocKey(d) == <<d.token, d.network, d.timestamp>>
DocsAtKey(coll, k) == { d \in BagToSet(coll) : DocKey(d) = k }
WrittenKeys == { PointKey(ups.points[i]) : i \in DOMAIN ups.points }
\* the last point of the call written at key k
LastPointAt(k) ==
  LET i == CHOOSE i \in DOMAIN ups.points :
             /\ PointKey(ups.points[i]) = k
             /\ \A j \in DOMAIN ups.points : PointKey(ups.points[j]) = k => j <= i
  IN  ups.points[i]

\* C19: after bulkUpsert every key written holds exactly one document, with
\* the value of the last point given for the key, and the documents at other
\* keys are as before.
C19_UpsertLastWriteWins ==
  ups.calls > 0 =>
    /\ \A k \in WrittenKeys :
         \E d \in DocsAtKey(ups.docs, k) :
           /\ DocsAtKey(ups.docs, k) = {d}
           /\ CopiesIn(d, ups.docs) = 1
           /\ d.price = LastPointAt(k).price
           /\ d.source = LastPointAt(k).source
           /\ d.date = LastPointAt(k).date
    /\ \A d \in BagToSet(ups.docs) \cup BagToSet(ups.before) :
         DocKey(d) \notin WrittenKeys => CopiesIn(d, ups.docs) = CopiesIn(d, ups.before)

C19_Witness ==
  /\ ups.calls = 2
  /\ Len(ups.points) = 2
  /\ PointKey(ups.points[1]) = PointKey(ups.points[2])
  /\ ups.points[1].token # ups.points[2].token
  /\ ups.points[1].price # ups.points[2].price
  /\ DocsAtKey(ups.before, PointKey(ups.points[1])) # {}
  /\ \E d \in BagToSet(ups.docs) : DocKey(d) \notin WrittenKeys
  /\ \E d \in DocsAtKey(ups.docs, PointKey(ups.points[1])) : d.price = ups.points[2].price

\* den times the exact interpolated price of the last call
ExactTimesDen ==
  interp.before.price * (interp.after.timestamp - interp.before.timestamp)
    + (interp.target - interp.before.timestamp) * (interp.after.price - interp.before.price)
InterpDen == interp.after.timestamp - interp.before.timestamp
OnGrain(x) == x % Grain = 0

\* C20, as stated: the interpolated price lies between the bracket prices.
C20_PriceWithinBrackets ==
  interp # None =>
    /\ Min(interp.before.price, interp.after.price) <= interp.out.price
    /\ interp.out.price <= Max(interp.before.price, interp.after.price)

\* C20, amended: the price returned is a multiple of 1e-8 nearest to
\* pb + (target - tb)/(ta - tb) * (pa - pb); it lies between the bracket prices
\* rounded to 8 decimals, and between the bracket prices themselves when they
\* have no more than 8 decimals; brackets (100, 10) and (200, 20) give 15 at 150.
C20_RoundedLinearInterpolation ==
  interp # None =>
    /\ OnGrain(interp.out.price)
    /\ 2 * Abs(interp.out.price * InterpDen - ExactTimesDen) <= Grain * InterpDen
    /\ Round8(Min(interp.before.price, interp.after.price), 1) <= interp.out.price
    /\ interp.out.price <= Round8(Max(interp.before.price, interp.after.price), 1)
    /\ (OnGrain(interp.before.price) /\ OnGrain(interp.after.price)) =>
         /\ Min(interp.before.price, interp.after.price) <= interp.out.price
         /\ interp.out.price <= Max(interp.before.price, interp.after.price)
    /\ (/\ interp.before = [ timestamp |-> 100, price |-> 10 * Grain ]
        /\ interp.after = [ timestamp |-> 200, price |-> 20 * Grain ]
        /\ interp.target = 150) => interp.out.price = 15 * Grain

C20_Witness ==
  /\ interp # None
  /\ interp.before = [ timestamp |-> 100, price |-> 10 * Grain ]
  /\ interp.after = [ timestamp |-> 200, price |-> 20 * Grain ]
  /\ interp.target = 150
  /\ interp.out.price = 15 * Grain

\* the documents of the series at or before, and at or after, the target of the
\* last interpolatePrice call, in the store the call found
IpAtOrBefore == { d \in BagToSet(ip.before) : d.timestamp <= ip.target }
IpAtOrAfter == { d \in BagToSet(ip.before) : d.timestamp >= ip.target }
\* the distance between the nearest of each
IpGap ==
  (CHOOSE t \in { d.timestamp : d \in IpAtOrAfter } :
      \A d \in IpAtOrAfter : t <= d.timestamp)
    - (CHOOSE t \in { d.timestamp : d \in IpAtOrBefore } :
         \A d \in IpAtOrBefore : t >= d.timestamp)
IpAbsent == ip.out = Returned(None) /\ ip.docs = ip.before

\* C21: with brackets exactly 7 * 86400 seconds apart interpolatePrice gives an
\* estimate (and stores it, when the database accepts the write); with brackets
\* 7 * 86400 + 1 seconds or more apart it returns null and stores nothing.
C21_GapBoundary ==
  (ip.calls > 0 /\ IpAtOrBefore # {} /\ IpAtOrAfter # {}) =>
    /\ IpGap >= 7 * 86400 + 1 => IpAbsent
    /\ IpGap = 7 * 86400 =>
         /\ ip.out # Returned(None)
         /\ ip.saveOk => /\ ip.out.kind = "ok"
                         /\ ip.docs # ip.before

C21_Witness ==
  /\ ip.calls > 0 /\ IpAtOrBefore # {} /\ IpAtOrAfter # {}
  /\ IpGap = 7 * 86400
  /\ ip.out.kind = "ok" /\ ip.out.result # None
  /\ \E d \in BagToSet(ip.docs) : d.timestamp = ip.target /\ d.source = "interpolated"

\* C23: when the store has no document at or after the target, or none at or
\* before it, interpolatePrice returns null and the store is as before.
C23_EdgeAbsence ==
  (ip.calls > 0 /\ (IpAtOrBefore = {} \/ IpAtOrAfter = {})) => IpAbsent

C23_Witness ==
  /\ ip.calls > 0
  /\ IpAtOrBefore # {} /\ IpAtOrAfter = {}
  /\ ip.before # EmptyBag
  /\ IpAbsent

\* C22: for the same bracket prices and the same ratio, the confidence at the
\* wider of two bracket gaps (1 hour to 7 days) is never greater than at the
\* narrower one.
C22_ConfidenceMonotone ==
  conf # None => (conf.narrow < conf.wide => conf.wideOut <= conf.narrowOut)

C22_Witness ==
  /\ conf # None
  /\ conf.narrow = 3600 /\ conf.wide = 50 * 3600
  /\ conf.wideOut < conf.narrowOut

\* C24: every stored document written by the fetch tier or by the batch
\* processor (source alchemy) has confidence exactly 1, and every stored
\* document with source interpolated has a confidence of at least 0.1 and
\* strictly below 1.
C24_ConfidenceBySource ==
  \A d \in BagToSet(docs) :
    /\ d.source = "alchemy" => d.confidence = 100000
    /\ d.source = "interpolated" => (10000 <= d.confidence /\ d.confidence < 100000)

C24_Witness ==
  \E r \in Resolvers :
    /\ Done(r) /\ outcome[r].kind = "ok" /\ obs[r].fetchCalls = 1
    /\ outcome[r].result.source = "alchemy"
    /\ \E d \in StoredAt(docs, r) : d.source = "alchemy" /\ d.confidence = 100000
    /\ \E d \in BagToSet(docs) : d.source = "interpolated" /\ d.confidence < 100000
    /\ job.state = "completed"

\* the stored document an estimate was persisted as
PersistedAs(coll, r, est) ==
  { d \in StoredAt(coll, r) :
      /\ d.source = "interpolated"
      /\ d.price = est.price
      /\ d.confidence = est.confidence
      /\ d.metadata = est.interpolation }

\* C25: when interpolatePrice hands back an estimate, and when the call returns
\* it, the store holds at the key a document with source interpolated, the
\* same price and confidence and the bracket timestamps and prices in its
\* metadata; when the write fails the call ends with an error and no estimate.
C25_PersistedBeforeReturn ==
  [][ \A r \in Resolvers :
        /\ (pc[r] = "saveInterp" /\ pc'[r] = "cacheSetInterp") =>
             /\ PersistedAs(docs', r, loc'[r].pending) # {}
             /\ loc'[r].pending.interpolation =
                  [ beforeTimestamp |-> loc[r].before.timestamp,
                    afterTimestamp |-> loc[r].after.timestamp,
                    beforePrice |-> loc[r].before.price,
                    afterPrice |-> loc[r].after.price ]
        /\ (Finishing(r) /\ outcome'[r].kind = "ok"
                         /\ outcome'[r].result.interpolation # None
                         /\ outcome'[r].result.source # "cache") =>
             PersistedAs(docs', r, outcome'[r].result) # {}
        /\ (pc[r] = "saveInterp" /\ pc'[r] # "saveInterp" /\ docs' = docs) =>
             (pc'[r] = "done" /\ outcome'[r].kind = "error") ]_vars

C25_Witness ==
  \E r \in Resolvers, q \in Resolvers :
    /\ Done(r) /\ outcome[r].kind = "ok"
    /\ outcome[r].result.source = "interpolated"
    /\ outcome[r].result.interpolation # None
    /\ PersistedAs(docs, r, outcome[r].result) # {}
    /\ Done(q) /\ outcome[q] = Threw("store") /\ obs[q].interpCalls = 1

\* C26: with a standard TTL of at least 1 second, a cache entry written after
\* interpolation is written with half the standard TTL (rounded down) and is
\* gone strictly sooner than the standard TTL; an entry written after a store
\* hit or a fetch is written with the standard TTL.
C26_InterpolatedExpiresSooner ==
  (ttlrun.on /\ ttlrun.cacheTTL >= 1) =>
    \A k \in CacheKeys :
      LET e == ttlrun.w.cache[k]
      IN  e # None =>
            IF e.value.interpolation # None
            THEN /\ e.ttl = ttlrun.cacheTTL \div 2
                 /\ e.ttl < ttlrun.cacheTTL
                 /\ ttlrun.age[k] < ttlrun.cacheTTL
            ELSE e.ttl = ttlrun.cacheTTL

\* the step in which the cache read of r's call is a hit
CacheHit(r) == pc[r] = "cacheGet" /\ pc'[r] = "done"

\* the payload names the tier the snapshot came from: in its source field, or
\* in a field added beside those of the snapshot
ProvenanceKept(cached, result) ==
  \/ result.source = cached.source
  \/ \E f \in DOMAIN result \ DOMAIN cached : result[f] = cached.source

\* C27, as stated: a cache hit returns the snapshot's price, confidence and
\* interpolation details unchanged with source "cache", the payload still
\* naming the tier the snapshot came from; the call reads no document, fetches
\* nothing, interpolates nothing and writes neither the store nor the cache.
C27_CacheHitFrame ==
  [][ \A r \in Resolvers :
        CacheHit(r) =>
          LET cached == cache[KeyOf(r)].value
              result == outcome'[r].result
          IN  /\ outcome'[r].kind = "ok"
              /\ result.price = cached.price
              /\ result.confidence = cached.confidence
              /\ result.interpolation = cached.interpolation
              /\ result.source = "cache"
              /\ ProvenanceKept(cached, result)
              /\ obs'[r] = NoObs
              /\ docs' = docs
              /\ cache' = cache ]_vars

\* C27, amended: a cache hit returns the snapshot with every field unchanged
\* except source, which is "cache"; the tier the snapshot came from is named
\* only by the entry, which stays in the cache as it was; the call reads no
\* document, fetches nothing, interpolates nothing and writes nothing.
C27_CacheHitReturnsSnapshot ==
  [][ \A r \in Resolvers :
        CacheHit(r) =>
          LET cached == cache[KeyOf(r)].value
              result == outcome'[r].result
          IN  /\ outcome'[r].kind = "ok"
              /\ result.source = "cache"
              /\ \A f \in DOMAIN cached \ {"source"} : result[f] = cached[f]
              /\ DOMAIN result = DOMAIN cached
              /\ cached.source \in {"alchemy", "interpolated"}
              /\ cache'[KeyOf(r)].value = cached
              /\ obs'[r] = NoObs
              /\ docs' = docs
              /\ cache' = cache ]_vars

C27_Witness ==
  \E r \in Resolvers :
    /\ Done(r) /\ outcome[r].kind = "ok"
    /\ outcome[r].result.source = "cache"
    /\ outcome[r].result.interpolation # None
    /\ outcome[r].result.confidence < 100000
    /\ obs[r] = NoObs
    /\ cache[KeyOf(r)] # None
    /\ cache[KeyOf(r)].value.source = "interpolated"

\* C28: a stored document with source alchemy stays in the store, alone at its
\* key, with its price, source and confidence, whatever step a request or the
\* job takes.
C28_FetchedPointImmutable ==
  [][ \A d \in BagToSet(docs) :
        d.source = "alchemy" =>
          /\ DocsAtKey(docs', DocKey(d)) = {d}
          /\ CopiesIn(d, docs') = 1 ]_vars

C28_Witness ==
  \E r \in Resolvers :
    /\ pc[r] = "interpolate"
    /\ loc[r].alchemyPrice # None
    /\ job.state = "completed"
    /\ \E d \in StoredAt(docs, r) :
         /\ d.source = "alchemy"
         /\ d.price # loc[r].alchemyPrice.price
         /\ DocsAtKey(docs, DocKey(d)) = {d}

\* the documents at a key are one direct observation with the given price
SupersededBy(found, price) ==
  \E d \in found : found = {d} /\ d.source = "alchemy" /\ d.price = price

\* C29: when a request or the job has fetched a price for a key that holds an
\* interpolated document and writes it, the key then holds the fetched price
\* (source alchemy) in place of the interpolated document.
C29_InterpolatedSuperseded ==
  [][ /\ \A r \in Resolvers :
           (/\ pc[r] = "saveFetched" /\ pc'[r] # "saveFetched"
            /\ \E d \in StoredAt(docs, r) : d.source = "interpolated")
             => SupersededBy(StoredAt(docs', r), loc[r].alchemyPrice.price)
      /\ (/\ jpc = "save" /\ jpc' # "save"
          /\ \E d \in PointsAt(docs, job.timestamps[jloc.k]) : d.source = "interpolated")
           => SupersededBy(PointsAt(docs', job.timestamps[jloc.k]), jloc.priceData.price)
    ]_vars

\* C30: the processor works on one batch at a time and takes the batches in
\* order, the next one only when every item of the current one is handled;
\* the progress values it computes and reports are within 0..100 and never
\* decrease; a job that ends with no failed batch has reported 100.
C30_SequentialMonotoneProgress ==
  [][ /\ jloc'.i \in {jloc.i, jloc.i + BatchSize}
      /\ jloc'.i # jloc.i => \A k \in jloc.i..BatchEnd(jloc.i) : jobs[k] # "pending"
      /\ \A k \in DOMAIN jobs : k > BatchEnd(jloc'.i) => jobs'[k] = "pending"
      /\ jloc'.progress >= jloc.progress
      /\ job'.progress >= job.progress
      /\ jloc'.progress \in 0..100
      /\ job'.progress \in 0..100
      /\ (job'.state = "completed" /\ job'.returnvalue.failed = 0) =>
           job'.progress = 100 ]_vars

C30_Witness ==
  /\ job.state = "completed"
  /\ Len0 > BatchSize
  /\ jloc.i > 1
  /\ job.returnvalue.failed = 0
  /\ job.progress = 100
  /\ ItemsWith("pending") = {}

\* C31: for a creation time not later than now, the scheduled job carries
\* exactly one timestamp per calendar day from the creation day to the
\* current day: the first is the start of the creation day, each next one is
\* one day later (so none repeats), the last is the start of the current day
\* (so none is later than now); the job's id is what the caller gets back.
C31_DailyTimestamps ==
  \A i \in DOMAIN sched :
    (sched[i].out.kind = "ok" /\ sched[i].out.job.data.creationTimestamp <= sched[i].now) =>
      LET c == sched[i].out.job.data.creationTimestamp
          ts == sched[i].out.job.data.timestamps
          n == Len(ts)
      IN  /\ n >= 1
          /\ ts[1] % Day = 0 /\ ts[1] <= c /\ c < ts[1] + Day
          /\ \A k \in 1..(n - 1) : ts[k + 1] = ts[k] + Day
          /\ \A k, m \in 1..n : k # m => ts[k] # ts[m]
          /\ \A k \in 1..n : ts[k] <= sched[i].now
          /\ sched[i].now < ts[n] + Day
          /\ sched[i].response.status = 200
          /\ sched[i].response.jobId = sched[i].out.job.id
          /\ sched[i].out.job.id = i

C31_Witness ==
  \E i \in DOMAIN sched :
    /\ sched[i].out.kind = "ok"
    /\ sched[i].out.job.data.creationTimestamp % Day # 0
    /\ Len(sched[i].out.job.data.timestamps) >= 2
    /\ sched[i].now % Day = 0
    /\ sched[i].response.jobId = 2

\* C35: when the processor has finished, the succeeded and failed counts of
\* its result add up to the number of timestamps of the job, also when a
\* progress update raised after a batch was processed.
C35_CountsAddUp ==
  job.state = "completed" =>
    job.returnvalue.successful + job.returnvalue.failed
      = job.returnvalue.totalTimestamps

\* C32: the batch processor never runs the interpolation engine and never
\* writes a document of source "interpolated": a step of it leaves the store
\* as it is or adds one document of source "alchemy" with full confidence at
\* the item's timestamp; an item whose fetch returned nothing, or failed on
\* every attempt, ends with no point stored at its timestamp.
C32_BatchNeverInterpolates ==
  [][ /\ interp' = interp /\ ip' = ip
      /\ \/ docs' = docs
         \/ \E d \in BagToSet(docs') :
              /\ docs' = Insert(docs, d)
              /\ d.source = "alchemy" /\ d.confidence = ConfOne
              /\ d.timestamp = job.timestamps[jloc.k]
      /\ (jpc = "fetch" /\ jobs[jloc.k] = "pending" /\ jobs'[jloc.k] # "pending") =>
           PointsAt(docs', job.timestamps[jloc.k]) = {}
    ]_vars

C32_Witness ==
  /\ job.state = "completed"
  /\ jobs[1] = "exhausted" /\ PointsAt(docs, job.timestamps[1]) = {}
  /\ jobs[2] = "ok" /\ \E d \in PointsAt(docs, job.timestamps[2]) : d.source = "alchemy"
  /\ jobs[3] = "ok" /\ PointsAt(docs, job.timestamps[3]) = {}

\* C33: in batch processing a fetch that returns nothing is not repeated: the
\* item is finished by that call, without a write, and a timestamp is fetched
\* again only after a call that raised, so every call after the first follows
\* a failed one.
C33_AbsentNotRetried ==
  [][ /\ jpc = "fetch" => /\ jobs[jloc.k] = "pending"
                          /\ jloc.attempt = jloc.failedAttempts + 1
      /\ (jpc = "fetch" /\ jobs'[jloc.k] = "ok") =>
           /\ docs' = docs
           /\ (jpc' = "fetch" => jloc'.k # jloc.k)
           /\ jloc'.attempt = 0
      /\ \A k \in DOMAIN jobs : jobs[k] # "pending" => jobs'[k] = jobs[k]
    ]_vars

C33_Witness ==
  /\ job.state = "completed"
  /\ jobs[1] = "ok" /\ PointsAt(docs, job.timestamps[1]) = {}
  /\ jobs[2] = "exhausted"
  /\ jobs[3] = "ok" /\ PointsAt(docs, job.timestamps[3]) # {}

\* the product the documentation gives, in percent factors: 0.8, times 0.7
\* for a relative change above 50% (else 0.85 above 20%), times 0.9 for a
\* ratio below 0.1 or above 0.9, times 0.8 for a gap above 48 hours (else 0.9
\* above 24 hours)
DocumentedConfidence(pb, pa, k, gap) ==
  LET change == Abs(pa - pb)
      f1 == IF 100 * change > 50 * pb THEN 70
            ELSE IF 100 * change > 20 * pb THEN 85 ELSE 100
      f2 == IF k < 2 \/ k > 18 THEN 90 ELSE 100
      f3 == IF gap > 48 * Hour THEN 80 ELSE IF gap > 24 * Hour THEN 90 ELSE 100
  IN  ((((((ConfBase * f1) \div 100) * f2) \div 100) * f3) \div 100)

\* C34: the confidence of an estimate between brackets of positive price is
\* the documented product, with every threshold exclusive; brackets 10 hours
\* and 5% apart give exactly 0.8 for a target in the middle 80%.
C34_ConfidenceFormula ==
  (conf # None /\ conf.beforePrice > 0) =>
    /\ conf.narrowOut = DocumentedConfidence(conf.beforePrice, conf.afterPrice,
                                             conf.ratio20, conf.narrow)
    /\ conf.wideOut = DocumentedConfidence(conf.beforePrice, conf.afterPrice,
                                           conf.ratio20, conf.wide)
    /\ (/\ conf.narrow = 10 * Hour
        /\ 20 * Abs(conf.afterPrice - conf.beforePrice) = conf.beforePrice
        /\ conf.ratio20 \in 2..18) => conf.narrowOut = 80000

C34_Witness ==
  /\ conf # None
  /\ conf.beforePrice = 20 /\ conf.afterPrice = 21
  /\ conf.narrow = 10 * Hour /\ conf.ratio20 = 2
  /\ conf.narrowOut = 80000
  /\ conf.wide = 48 * Hour /\ conf.wideOut = 72000

\* C36: every cache entry carries the price and the confidence of a document
\* stored at its key, and every price a call has returned, from whichever
\* tier, is the price of a document stored at the requested key.
C36_CacheAgreesWithStore ==
  /\ \A t \in Tokens, n \in Networks, ts \in ReqTS :
       LET entry == cache[GeneratePriceKey(t, n, ts)]
       IN  entry # None =>
             \E d \in Matching(docs, t, n, ts) :
               /\ d.price = entry.value.price
               /\ d.confidence = entry.value.confidence
  /\ \A r \in Resolvers :
       (Done(r) /\ outcome[r].kind = "ok") =>
         \E d \in StoredAt(docs, r) : d.price = outcome[r].result.price

C36_Witness ==
  \E r \in Resolvers, q \in Resolvers :
    /\ Done(r) /\ outcome[r].kind = "ok" /\ outcome[r].result.source = "interpolated"
    /\ Done(q) /\ outcome[q].kind = "ok" /\ outcome[q].result.source = "cache"
    /\ KeyOf(q) = KeyOf(r)
    /\ cache[KeyOf(r)] # None
    /\ \E d \in StoredAt(docs, r) :
         /\ d.price = outcome[q].result.price
         /\ d.confidence = cache[KeyOf(r)].value.confidence
         /\ d.confidence < ConfOne

C37_RerunIdempotent ==
  [][ /\ \A d \in BagToSet(docs) : CopiesIn(d, docs') = CopiesIn(d, docs)
      /\ \A d \in BagToSet(docs') :
           /\ CopiesIn(d, docs') = 1
           /\ \A e \in BagToSet(docs') : DocKey(e) = DocKey(d) => e = d
      /\ (/\ job.attemptsMade >= 2 /\ jpc = "check"
          /\ PointsAt(docs, job.timestamps[jloc.k]) # {}) =>
           /\ jpc' # "fetch"
           /\ jloc'.attempt = 0
           /\ docs' = docs
    ]_vars

C37_Witness ==
  /\ job.attemptsMade = 2
  /\ job.state = "completed"
  /\ \A k \in DOMAIN jobs : jobs[k] = "ok" /\ PointsAt(docs, job.timestamps[k]) # {}
  /\ job.returnvalue.successful = Len0

\* C39: a call that finds an entry younger than its expiry returns the
\* entry's value without calling the fetch function; a call that finds none,
\* or one that is not younger, calls it; when the fetch succeeds its result is
\* stored and returned; when it fails the cache is left as it is and the call
\* returns the entry it found, or raises if it found none.
C39_GetCachedData ==
  [][ /\ mem'.calls = mem.calls + 1 =>
           LET c == mem'.caller
               e == mem.cache
           IN  IF e # None /\ mem.now - e.timestamp < mem'.expiry[c]
               THEN /\ mem'.out[c] = Returned(e.data)
                    /\ mem'.pc[c] = "idle"
                    /\ mem'.fetches = mem.fetches
                    /\ mem'.cache = mem.cache
               ELSE /\ mem'.pc[c] = "fetch"
                    /\ mem'.fetches = mem.fetches + 1
                    /\ mem'.cache = mem.cache
      /\ \A c \in DOMAIN mem.pc :
           (mem.pc[c] = "fetch" /\ mem'.pc[c] = "idle") =>
             \/ /\ mem'.fetch[c] = "ok"
                /\ mem'.out[c].kind = "ok"
                /\ mem'.cache = [ data |-> mem'.out[c].result, timestamp |-> mem.now ]
             \/ /\ mem'.fetch[c] = "failed"
                /\ mem'.cache = mem.cache
                /\ mem'.fetches = mem.fetches
                /\ IF mem.seen[c] # None
                   THEN mem'.out[c] = Returned(mem.seen[c].data)
                   ELSE mem'.out[c].kind = "error"
    ]_vars

C39_Witness ==
  /\ mem.fetch["a"] = "failed"
  /\ mem.seen["a"] # None
  /\ mem.cache = mem.seen["a"]
  /\ mem.now - mem.cache.timestamp >= mem.expiry["a"]
  /\ mem.out["a"] = Returned(mem.cache.data)
  /\ mem.fetch["b"] = "failed"
  /\ mem.out["b"].kind = "error"

====
